---- MODULE Spec2Model ----
(***************************************************************************)
(* State-machine model of the gpu-scrapper repository.                     *)
(*                                                                         *)
(*   - McpClient (src/src/mcp-data-transformer.ts): connection attempts,   *)
(*     timers, socket events, correlated calls.            Spec            *)
(*   - saveResultsWithMcp (src/unnamed/part_005): one relay invocation     *)
(*     with its retry recursion and the file fallback.     SpecRelay       *)
(*   - scrapeAllStores (src/src/scraping.ts): the store x term loop.       *)
(*                                                         SpecScrape      *)
(*                                                                         *)
(* Event loop: every action below is one macrotask (a socket event         *)
(* handler, a timer callback, or an API call up to its first await)        *)
(* together with the promise continuations it triggers.                    *)
(***************************************************************************)
EXTENDS Integers, Sequences, FiniteSets, TLC

\* ---------------------------------------------------------------- bounds
MaxConnects == 2        \* connect() calls on one client
MaxSockets == 3         \* WebSockets one client creates
MaxCalls == 2           \* listTools()/callTool() calls on one client
MaxDepth == 2           \* nested saveResultsWithMcp invocations (retry recursion)
MaxStores == 2          \* stores handed to scrapeAllStores
MaxTerms == 2           \* search terms handed to scrapeAllStores
MaxSelectors == 2       \* name selectors / price selectors tried on an element
MaxAnchors == 2         \* descendant anchors of an element

\* ------------------------------------------------------------ value sets
NoTools == <<>>
OneTool == <<"save_scrape">>

\* message.result of a response: absent, or an object whose tools member is
\* absent or a list.
ResultAbsent == [present |-> FALSE, hasTools |-> FALSE, tools |-> NoTools]
ResultNoToolsKey == [present |-> TRUE, hasTools |-> FALSE, tools |-> NoTools]
ResultTools(t) == [present |-> TRUE, hasTools |-> TRUE, tools |-> t]
Results == {ResultAbsent, ResultNoToolsKey, ResultTools(NoTools), ResultTools(OneTool)}

\* values of the retryAttempts option: the default, and one that retries
RetryAttemptsOptions == {1, 2}

\* close codes a 'close' event can carry
CloseCodes == {1000, 1006}

VARIABLES
    \* ---- McpClient fields
    isConnected,      \* this.isConnected
    ws,               \* this.ws: 0 is null, else an index into socks
    pendingCalls,     \* this.pendingCalls: callId -> index into calls
    callIdCounter,    \* this.callIdCounter
    retryAttempts,    \* this.retryAttempts
    errorListeners,   \* TRUE iff an 'error' listener is registered on the client
    urlValid,         \* TRUE iff new WebSocket(this.url) accepts the url
    \* ---- McpClient: objects the closures of connect()/callMethod() hold
    socks,            \* every WebSocket created, in creation order
    conns,            \* every connect() call: its promise
    calls,            \* every listTools()/callTool() call: its promise
    timers,           \* armed setTimeout(..., this.timeout), FIFO
    retries,          \* armed setTimeout(..., this.retryDelay), FIFO
    sent,             \* requests written to the transport
    emitted,          \* events the client emitted in the latest step, in order
    handled,          \* what handleMessage did with the latest frame
    crashed,          \* an exception escaped an event handler
    \* ---- saveResultsWithMcp
    frames,           \* stack of invocations (retry recursion), innermost last
    result,           \* the ScrapingResult handed to saveResultsWithMcp
    fileSaves,        \* files written by saveResultsToFile
    \* ---- scrapeAllStores
    scrape,           \* loop position, accumulator and errors of one run
    \* ---- extractSingleProduct
    extract,          \* the element at hand and what was extracted from it
    \* ---- database (better-sqlite3)
    db,               \* the tables scrape, store, item and scrape_item
    saver,            \* position of the saveProducts call at hand
    \* ---- validateMcpData
    validation,       \* the payload at hand and what validateMcpData returned
    \* ---- deduplicateProducts
    dedup,            \* position of the deduplicateProducts call at hand
    \* ---- server: app.post('/run')
    requests          \* every POST /run received: position of its handler

clientVars == <<isConnected, ws, pendingCalls, callIdCounter, retryAttempts,
                errorListeners, urlValid, socks, conns, calls, timers, retries,
                sent, emitted, handled, crashed>>
relayVars == <<frames, result, fileSaves>>
scrapeVars == <<scrape, extract>>
dbVars == <<db, saver>>
stageVars == <<validation, dedup, requests>>
vars == <<clientVars, relayVars, scrapeVars, dbVars, stageVars>>

\* ===================================================================
\* McpClient
\* ===================================================================

\* ---- promises ------------------------------------------------------
\* The value a call promise settles with.  kind: "result" (resolve(message.result)),
\* "rpc_error" (`MCP Error ${code}: ${message}`), "timeout"
\* (`MCP call timeout for method: ${method}`), "not_connected", "send_failed".
NoValue == [kind |-> "none", method |-> "", result |-> ResultAbsent]
ResultValue(r) == [kind |-> "result", method |-> "", result |-> r]
ErrorValue(k, m) == [kind |-> k, method |-> m, result |-> ResultAbsent]

\* (mutant) listTools returns response.tools without the `?? []` default
ApiReturnNoDefault(api, st, v) ==
    IF st = "rejected"
    THEN [state |-> "threw", tools |-> NoTools, error |-> v.kind]
    ELSE IF api = "listTools"
         THEN IF ~v.result.present \/ ~v.result.hasTools
              THEN [state |-> "threw", tools |-> NoTools, error |-> "type_error"]
              ELSE [state |-> "returned", tools |-> v.result.tools, error |-> "none"]
         ELSE [state |-> "returned", tools |-> NoTools, error |-> "none"]

\* What listTools()/callTool() hand to their caller once callMethod's promise
\* has settled with state st and value v.
ApiReturn(api, st, v) ==
    IF st = "rejected"
    THEN [state |-> "threw", tools |-> NoTools, error |-> v.kind]
    ELSE IF api = "listTools"
         THEN IF ~v.result.present
              THEN [state |-> "threw", tools |-> NoTools, error |-> "type_error"]
              ELSE [state |-> "returned",
                    tools |-> IF v.result.hasTools THEN v.result.tools ELSE NoTools,
                    error |-> "none"]
         ELSE [state |-> "returned", tools |-> NoTools, error |-> "none"]

NoReturn == [state |-> "pending", tools |-> NoTools, error |-> "none"]

\* resolve/reject of call k's promise: the first invocation settles it, n counts
\* the invocations.
SettleCall(cs, k, st, v) ==
    [cs EXCEPT ![k] =
        IF cs[k].state = "pending"
        THEN [cs[k] EXCEPT !.state = st, !.value = v, !.n = cs[k].n + 1,
                           !.ret = ApiReturn(cs[k].api, st, v)]
        ELSE [cs[k] EXCEPT !.n = cs[k].n + 1]]

\* resolve/reject of connect() call c's promise: only the first one settles it.
SettleConn(cs, c, st, e) ==
    [cs EXCEPT ![c] =
        IF cs[c].state = "pending"
        THEN [cs[c] EXCEPT !.state = st, !.error = e]
        ELSE cs[c]]

\* ---- transport -------------------------------------------------------
\* WebSocket.close(): a socket still connecting aborts its handshake (it will
\* report 'error' and then 'close'), an open one starts closing, a closing or
\* closed one is left alone.  s = 0 models this.ws?.close() on null.
WsClose(ss, s) ==
    IF s = 0 THEN ss
    ELSE [ss EXCEPT ![s].state =
            CASE @ = "connecting" -> "aborting"
              [] @ = "open" -> "closing"
              [] OTHER -> @]

\* a delete that empties the map
RemovedAll(f, k) == [x \in {} |-> f[x]]

\* Map.delete(k)
Removed(f, k) == [x \in DOMAIN f \ {k} |-> f[x]]

\* ---- connect() -------------------------------------------------------
\* connectWithRetry(attempt) for connect() call c; cs and rs are the connect
\* promises and the armed retry timers when it starts.  new WebSocket(url)
\* throws on a url it cannot parse, which the catch block treats like a failed
\* attempt.
ConnectWithRetry(cs, rs, c, attempt) ==
    IF urlValid
    THEN /\ Len(socks) < MaxSockets
         /\ socks' = Append(socks, [state |-> "connecting", attempt |-> attempt, conn |-> c])
         /\ ws' = Len(socks) + 1
         /\ timers' = Append(timers, [kind |-> "conn", conn |-> c, sock |-> Len(socks) + 1, id |-> 0, call |-> 0])
         /\ conns' = cs
         /\ retries' = rs
    ELSE /\ UNCHANGED <<socks, ws, timers>>
         /\ IF attempt < retryAttempts
            THEN /\ retries' = Append(rs, [conn |-> c, attempt |-> attempt + 1])
                 /\ conns' = cs
            ELSE /\ retries' = rs
                 /\ conns' = SettleConn(cs, c, "rejected", "thrown")

DoConnect ==
    /\ IF isConnected
       THEN /\ conns' = Append(conns, [state |-> "resolved", error |-> "none"])
            /\ UNCHANGED <<socks, ws, timers, retries>>
       ELSE ConnectWithRetry(
                Append(conns, [state |-> "pending", error |-> "none"]),
                retries, Len(conns) + 1, 1)
    /\ emitted' = <<>>
    /\ UNCHANGED <<isConnected, pendingCalls, callIdCounter, retryAttempts,
                   errorListeners, urlValid, calls, sent, crashed, handled>>

Connect ==
    /\ ~crashed
    /\ Len(conns) < MaxConnects
    /\ DoConnect
    /\ UNCHANGED <<relayVars, scrapeVars, dbVars, stageVars>>

\* setTimeout(() => connectWithRetry(attempt + 1), this.retryDelay) fires.
RetryTimer ==
    /\ ~crashed
    /\ retries # <<>>
    /\ ConnectWithRetry(conns, Tail(retries), Head(retries).conn, Head(retries).attempt)
    /\ emitted' = <<>>
    /\ UNCHANGED <<isConnected, pendingCalls, callIdCounter, retryAttempts,
                   errorListeners, urlValid, calls, sent, crashed, handled>>
    /\ UNCHANGED <<relayVars, scrapeVars, dbVars, stageVars>>

\* ws.on('open')
SocketOpen(s) ==
    /\ ~crashed
    /\ socks[s].state = "connecting"
    /\ socks' = [socks EXCEPT ![s].state = "open"]
    /\ isConnected' = TRUE
    /\ emitted' = <<[ev |-> "connected", sock |-> s, code |-> 0]>>
    /\ conns' = SettleConn(conns, socks[s].conn, "resolved", "none")
    /\ UNCHANGED <<ws, pendingCalls, callIdCounter, retryAttempts, errorListeners,
                   urlValid, calls, timers, retries, sent, crashed, handled>>
    /\ UNCHANGED <<relayVars, scrapeVars, dbVars, stageVars>>

\* ws.on('close') body
CloseHandler(s, code) ==
    /\ isConnected' = FALSE
    /\ emitted' = <<[ev |-> "disconnected", sock |-> s, code |-> code]>>

\* ws.on('error').  EventEmitter.emit('error') with no 'error' listener throws
\* the error: the rest of the handler does not run and the exception escapes
\* the socket's event dispatch.  With a listener the handler retries or
\* rejects.  A handshake that fails reports 'error' and 'close' back to back;
\* an open socket that fails reports 'close' later.
SocketError(s) ==
    /\ ~crashed
    /\ socks[s].state \in {"connecting", "aborting", "open"}
    /\ IF ~errorListeners
       THEN /\ crashed' = TRUE
            /\ socks' = [socks EXCEPT ![s].state = "closing"]
            /\ emitted' = <<>>
            /\ UNCHANGED <<isConnected, retries, conns>>
       ELSE /\ crashed' = FALSE
            /\ IF socks[s].attempt < retryAttempts
               THEN /\ retries' = Append(retries, [conn |-> socks[s].conn,
                                                   attempt |-> socks[s].attempt + 1])
                    /\ conns' = conns
               ELSE /\ retries' = retries
                    /\ conns' = SettleConn(conns, socks[s].conn, "rejected", "terminal")
            /\ IF socks[s].state = "open"
               THEN /\ socks' = [socks EXCEPT ![s].state = "closing"]
                    /\ emitted' = <<[ev |-> "error", sock |-> s, code |-> 0]>>
                    /\ UNCHANGED isConnected
               ELSE /\ socks' = [socks EXCEPT ![s].state = "closed"]
                    /\ isConnected' = FALSE
                    /\ emitted' = <<[ev |-> "error", sock |-> s, code |-> 0],
                                    [ev |-> "disconnected", sock |-> s, code |-> 1006]>>
    /\ UNCHANGED <<ws, pendingCalls, callIdCounter, retryAttempts, errorListeners,
                   urlValid, calls, timers, sent, handled>>
    /\ UNCHANGED <<relayVars, scrapeVars, dbVars, stageVars>>

\* ws.on('close'): the peer closes an open socket, or a closing one finishes.
SocketClose(s, code) ==
    /\ ~crashed
    /\ socks[s].state \in {"open", "closing"}
    /\ socks' = [socks EXCEPT ![s].state = "closed"]
    /\ CloseHandler(s, code)
    /\ UNCHANGED <<ws, pendingCalls, callIdCounter, retryAttempts, errorListeners,
                   urlValid, conns, calls, timers, retries, sent, crashed, handled>>
    /\ UNCHANGED <<relayVars, scrapeVars, dbVars, stageVars>>

\* The connection timer of a connect attempt fires.
ConnectTimeout ==
    /\ ~crashed
    /\ timers # <<>>
    /\ Head(timers).kind = "conn"
    /\ timers' = Tail(timers)
    /\ IF ~isConnected
       THEN /\ socks' = WsClose(socks, ws)
            /\ conns' = SettleConn(conns, Head(timers).conn, "rejected", "timeout")
       ELSE UNCHANGED <<socks, conns>>
    /\ emitted' = <<>>
    /\ UNCHANGED <<isConnected, ws, pendingCalls, callIdCounter, retryAttempts,
                   errorListeners, urlValid, calls, retries, sent, crashed, handled>>
    /\ UNCHANGED <<relayVars, scrapeVars, dbVars, stageVars>>

\* disconnect()
\* (mutant) disconnect() closes the socket and leaves the flag set
DoDisconnectKeepsFlag ==
    /\ IF ws # 0 /\ isConnected
       THEN socks' = WsClose(socks, ws)
       ELSE UNCHANGED socks
    /\ emitted' = <<>>
    /\ UNCHANGED <<isConnected, ws, pendingCalls, callIdCounter, retryAttempts,
                   errorListeners, urlValid, conns, calls, timers, retries, sent,
                   crashed, handled>>

DoDisconnect ==
    /\ IF ws # 0 /\ isConnected
       THEN /\ socks' = WsClose(socks, ws)
            /\ isConnected' = FALSE
       ELSE UNCHANGED <<socks, isConnected>>
    /\ emitted' = <<>>
    /\ UNCHANGED <<ws, pendingCalls, callIdCounter, retryAttempts, errorListeners,
                   urlValid, conns, calls, timers, retries, sent, crashed, handled>>

Disconnect ==
    /\ ~crashed
    /\ DoDisconnect
    /\ UNCHANGED <<relayVars, scrapeVars, dbVars, stageVars>>

\* ---- calls -------------------------------------------------------------
\* An inbound frame: text that JSON.parse rejects, or a message with an id
\* (0: absent or falsy; a string or a number), an optional error member and a
\* result.  callMethod keys pendingCalls by the decimal string of the counter,
\* so a numeric id never equals a key.
Messages ==
    {[parses |-> FALSE, id |-> 0, idIsString |-> TRUE, hasError |-> FALSE, result |-> ResultAbsent]}
    \cup [parses : {TRUE}, id : 0..(MaxCalls + 1), idIsString : BOOLEAN,
          hasError : {TRUE}, result : {ResultAbsent}]
    \cup [parses : {TRUE}, id : 0..(MaxCalls + 1), idIsString : BOOLEAN,
          hasError : {FALSE}, result : Results]

\* (mutant) ids compared loosely: the number 1 matches the key "1"
MatchesLoosely(pc, m) == m.parses /\ m.id # 0 /\ m.id \in DOMAIN pc

\* message.id && this.pendingCalls.has(message.id)
Matches(pc, m) == m.parses /\ m.id # 0 /\ m.idIsString /\ m.id \in DOMAIN pc

\* (mutant) responses are handed to the oldest pending call
PendingEntryOldest(pc, m) == pc[CHOOSE i \in DOMAIN pc : \A j \in DOMAIN pc : i <= j]

\* this.pendingCalls.get(message.id): the call whose resolvers the entry holds
PendingEntry(pc, m) == pc[m.id]

\* handleMessage(data), run by the 'message' handler of any open socket
HandleMessage(m) ==
    /\ ~crashed
    /\ \E s \in DOMAIN socks : socks[s].state = "open"
    /\ handled' = IF ~m.parses THEN "parse_error"
                  ELSE IF Matches(pendingCalls, m) THEN "settled" ELSE "ignored"
    /\ IF Matches(pendingCalls, m)
       THEN /\ pendingCalls' = Removed(pendingCalls, m.id)
            /\ calls' = IF m.hasError
                        THEN SettleCall(calls, PendingEntry(pendingCalls, m), "rejected",
                                        ErrorValue("rpc_error", ""))
                        ELSE SettleCall(calls, PendingEntry(pendingCalls, m), "resolved",
                                        ResultValue(m.result))
       ELSE UNCHANGED <<pendingCalls, calls>>
    /\ emitted' = <<>>
    /\ UNCHANGED <<isConnected, ws, callIdCounter, retryAttempts, errorListeners,
                   urlValid, socks, conns, timers, retries, sent, crashed>>
    /\ UNCHANGED <<relayVars, scrapeVars, dbVars, stageVars>>

NewCall(api, method, id) ==
    [api |-> api, method |-> method, id |-> id, state |-> "pending",
     value |-> NoValue, n |-> 0, ret |-> NoReturn]

\* an id that stops at 1
NextCallIdStuck(counter) == IF counter = 0 THEN 1 ELSE counter

\* ++this.callIdCounter
NextCallId(counter) == counter + 1

\* (mutant) a guard that looks at the socket only
NotConnectedNoSocket(connected, socket) == socket = 0

\* if (!this.isConnected || !this.ws)
NotConnected(connected, socket) == ~connected \/ socket = 0

\* callMethod(method), entered through listTools() or callTool().  send() on a
\* socket that is still connecting throws inside the promise executor, after
\* the entry was stored and before the timer is armed; on a closing or closed
\* socket it throws or drops the frame, depending on the transport version.
CallMethod(api, method, sendThrows) ==
    /\ LET k == Len(calls) + 1
           callId == NextCallId(callIdCounter)
       IN IF NotConnected(isConnected, ws)
          THEN /\ calls' = SettleCall(Append(calls, NewCall(api, method, 0)), k,
                                      "rejected", ErrorValue("not_connected", ""))
               /\ UNCHANGED <<callIdCounter, pendingCalls, sent, timers>>
          ELSE /\ callIdCounter' = callId
               /\ pendingCalls' = (callId :> k) @@ pendingCalls
               /\ IF socks[ws].state = "open"
                  THEN /\ sent' = Append(sent, [id |-> callId, method |-> method])
                       /\ timers' = Append(timers, [kind |-> "call", conn |-> 0, sock |-> 0, id |-> callId, call |-> k])
                       /\ calls' = Append(calls, NewCall(api, method, callId))
                  ELSE IF socks[ws].state = "connecting" \/ sendThrows
                  THEN /\ calls' = SettleCall(Append(calls, NewCall(api, method, callId)), k,
                                              "rejected", ErrorValue("send_failed", ""))
                       /\ UNCHANGED <<sent, timers>>
                  ELSE /\ timers' = Append(timers, [kind |-> "call", conn |-> 0, sock |-> 0, id |-> callId, call |-> k])
                       /\ calls' = Append(calls, NewCall(api, method, callId))
                       /\ UNCHANGED sent
    /\ emitted' = <<>>
    /\ UNCHANGED <<isConnected, ws, retryAttempts, errorListeners, urlValid, socks,
                   conns, retries, crashed, handled>>

\* listTools(): the call; ApiReturn is what it returns once the call settled
ListTools ==
    /\ ~crashed
    /\ Len(calls) < MaxCalls
    /\ \E t \in BOOLEAN : CallMethod("listTools", "tools/list", t)
    /\ UNCHANGED <<relayVars, scrapeVars, dbVars, stageVars>>

\* callTool(toolName, params)
CallTool ==
    /\ ~crashed
    /\ Len(calls) < MaxCalls
    /\ \E t \in BOOLEAN : CallMethod("callTool", "tools/call", t)
    /\ UNCHANGED <<relayVars, scrapeVars, dbVars, stageVars>>

\* (mutant) the timer rejects without looking at pendingCalls
TimerAlwaysRejects(pc, callId) == TRUE

\* this.pendingCalls.has(callId) in the timer callback
TimerStillPending(pc, callId) == callId \in DOMAIN pc

\* The timer of a call fires; its closure holds callId, method and reject.
CallTimeout ==
    /\ ~crashed
    /\ timers # <<>>
    /\ Head(timers).kind = "call"
    /\ timers' = Tail(timers)
    /\ LET callId == Head(timers).id
           k == Head(timers).call
       IN IF TimerStillPending(pendingCalls, callId)
          THEN /\ pendingCalls' = Removed(pendingCalls, callId)
               /\ calls' = SettleCall(calls, k, "rejected",
                                      ErrorValue("timeout", calls[k].method))
          ELSE UNCHANGED <<pendingCalls, calls>>
    /\ emitted' = <<>>
    /\ UNCHANGED <<isConnected, ws, callIdCounter, retryAttempts, errorListeners,
                   urlValid, socks, conns, retries, sent, handled, crashed>>
    /\ UNCHANGED <<relayVars, scrapeVars, dbVars, stageVars>>

\* ---- the client on its own ------------------------------------------------
NoFrames == <<>>
NoResult == [products |-> <<>>, errors |-> <<>>]
NoScrape == [pc |-> "idle"]
NoExtract == [pc |-> "idle"]

\* the database as init.sql leaves it: four empty tables
NoDb == [scrape |-> <<>>, store |-> <<>>, item |-> <<>>, scrape_item |-> <<>>]

\* no saveProducts call has been made; issued logs what getOrCreateStoreId
\* returned, as <<name, id>>
NoSaver == [pc |-> "idle", issued |-> {}]

\* validateMcpData has not been called
NoValidation == [pc |-> "idle"]

\* deduplicateProducts has not been called
NoDedup == [pc |-> "idle"]

ClientInit ==
    /\ isConnected = FALSE
    /\ ws = 0
    /\ pendingCalls = <<>>
    /\ callIdCounter = 0
    /\ socks = <<>>
    /\ conns = <<>>
    /\ calls = <<>>
    /\ timers = <<>>
    /\ retries = <<>>
    /\ sent = <<>>
    /\ emitted = <<>>
    /\ handled = "none"
    /\ crashed = FALSE

Init ==
    /\ ClientInit
    /\ retryAttempts \in RetryAttemptsOptions
    /\ errorListeners \in BOOLEAN
    /\ urlValid \in BOOLEAN
    /\ frames = NoFrames
    /\ result = NoResult
    /\ fileSaves = 0
    /\ scrape = NoScrape
    /\ extract = NoExtract
    /\ db = NoDb
    /\ saver = NoSaver
    /\ validation = NoValidation
    /\ dedup = NoDedup
    /\ requests = <<>>

\* The connection life cycle: connect() calls, their attempts and timers, the
\* socket events and disconnect().
Next ==
    \/ Connect
    \/ RetryTimer
    \/ \E s \in DOMAIN socks : SocketOpen(s)
    \/ \E s \in DOMAIN socks : SocketError(s)
    \/ \E s \in DOMAIN socks : \E code \in CloseCodes : SocketClose(s, code)
    \/ ConnectTimeout
    \/ Disconnect

Spec == Init /\ [][Next]_vars

\* The timers of setTimeout fire; what the network does to a socket is not
\* promised.
SpecFair == Spec /\ WF_vars(ConnectTimeout) /\ WF_vars(RetryTimer)

\* Calls over one connection: a client with the default options that
\* connect()s once, the calls issued on it and the frames and timers that
\* settle them.
CallsInit ==
    /\ ClientInit
    /\ retryAttempts = 1
    /\ errorListeners = TRUE
    /\ urlValid = TRUE
    /\ frames = NoFrames
    /\ result = NoResult
    /\ fileSaves = 0
    /\ scrape = NoScrape
    /\ extract = NoExtract
    /\ db = NoDb
    /\ saver = NoSaver
    /\ validation = NoValidation
    /\ dedup = NoDedup
    /\ requests = <<>>

ConnectOnce == conns = <<>> /\ Connect

CallsNext ==
    \/ ConnectOnce
    \/ \E s \in DOMAIN socks : SocketOpen(s)
    \/ \E s \in DOMAIN socks : \E code \in CloseCodes : SocketClose(s, code)
    \/ ConnectTimeout
    \/ Disconnect
    \/ ListTools
    \/ CallTool
    \/ \E m \in Messages : HandleMessage(m)
    \/ CallTimeout

SpecCalls == CallsInit /\ [][CallsNext]_vars

\* Calls on a client whose connect() is called more than once: every
\* connect() that finds isConnected false opens a socket of its own and
\* stores it in this.ws.
ClientCallsNext ==
    \/ Connect
    \/ \E s \in DOMAIN socks : SocketOpen(s)
    \/ \E s \in DOMAIN socks : \E code \in CloseCodes : SocketClose(s, code)
    \/ ConnectTimeout
    \/ Disconnect
    \/ ListTools
    \/ CallTool
    \/ \E m \in Messages : HandleMessage(m)
    \/ CallTimeout

SpecClientCalls == CallsInit /\ [][ClientCallsNext]_vars

\* The timers of setTimeout fire: the event loop runs every timer that is due.
SpecClientCallsFair ==
    SpecClientCalls /\ WF_vars(CallTimeout) /\ WF_vars(ConnectTimeout)

\* ===================================================================
\* saveResultsWithMcp
\* ===================================================================

\* ---- numbers ------------------------------------------------------------
\* A JavaScript number as parseFloat can give it here: NaN, or mant / 10^exp
\* with no trailing zero in the fraction.
NaN == [nan |-> TRUE, mant |-> 0, exp |-> 0]
Num(mant, exp) == [nan |-> FALSE, mant |-> mant, exp |-> exp]
MinusOne == Num(-1, 0)
\* price > 0
Positive(v) == ~v.nan /\ v.mant > 0
\* !price
Falsy(v) == v.nan \/ v.mant = 0

\* ---- the payload ---------------------------------------------------------
\* Items as extractSingleProduct builds them: name and price are truthy, the
\* price is -1 when no selector gave a positive number, the url is "" when the
\* element has no link.
GoodGpu == [name |-> "RTX 5090", price |-> Num(2399, 0), url |-> "https://www.megekko.nl/p/1",
            store |-> "Megekko", category |-> "GPU"]
GoodCpu == [name |-> "Ryzen 7 9800X3D", price |-> Num(479, 0), url |-> "https://azerty.nl/p/2",
            store |-> "Azerty", category |-> "CPU"]
NoUrlGpu == [GoodGpu EXCEPT !.url = ""]
NoPriceCpu == [GoodCpu EXCEPT !.price = MinusOne]

SampleProducts == {<<>>, <<GoodGpu, GoodCpu>>, <<GoodCpu, NoUrlGpu>>, <<NoPriceCpu>>}
SampleResults == [products : SampleProducts, errors : {<<>>}]

\* [...new Set(products.map(p => p.store))]: the store names in order of first
\* occurrence
RECURSIVE UniqueStores(_)
UniqueStores(products) ==
    IF products = <<>> THEN <<>>
    ELSE LET front == UniqueStores(SubSeq(products, 1, Len(products) - 1))
             last == products[Len(products)].store
         IN IF \E i \in DOMAIN front : front[i] = last THEN front ELSE Append(front, last)

CreateStoreMap(products) ==
    LET uniqueStores == UniqueStores(products)
    IN [storeName \in {uniqueStores[i] : i \in DOMAIN uniqueStores} |->
            [id |-> CHOOSE i \in DOMAIN uniqueStores : uniqueStores[i] = storeName,
             name |-> storeName]]

TransformItemToMcp(item, storeMap) ==
    [price |-> item.price, name |-> item.name, url |-> item.url,
     item_type |-> item.category,
     store |-> [id |-> storeMap[item.store].id, name |-> storeMap[item.store].name]]

\* The timestamp is new Date().toISOString(), never empty.
TransformScrapingResultToMcp(r) ==
    [scrape |->
        [timestamp |-> "now",
         items |-> [i \in DOMAIN r.products |->
                       TransformItemToMcp(r.products[i], CreateStoreMap(r.products))]]]

\* typeof item.price !== 'number' || item.price <= 0, for a price that is a
\* number: NaN <= 0 is false
PriceRejected(price) == ~price.nan /\ price.mant <= 0

\* The checks validateMcpData runs on item number index, in order. A string
\* field that is missing is read as "", which the checks treat alike; an item
\* without a store object has no field store.
ItemErrors(item, index) ==
    (IF item.name = "" THEN <<[index |-> index, error |-> "name"]>> ELSE <<>>)
    \o (IF PriceRejected(item.price)
        THEN <<[index |-> index, error |-> "price"]>> ELSE <<>>)
    \o (IF item.url = "" THEN <<[index |-> index, error |-> "url"]>> ELSE <<>>)
    \o (IF item.item_type \notin {"GPU", "CPU"}
        THEN <<[index |-> index, error |-> "item_type"]>> ELSE <<>>)
    \o (IF "store" \notin DOMAIN item \/ item.store.name = ""
        THEN <<[index |-> index, error |-> "store"]>> ELSE <<>>)

RECURSIVE ItemsErrors(_, _)
ItemsErrors(items, n) ==
    IF n = 0 THEN <<>>
    ELSE ItemsErrors(items, n - 1) \o ItemErrors(items[n], n - 1)

\* validateMcpData(data). A payload without scrape object has no field
\* scrape; a scrape whose items is not an array has no field items; a missing
\* timestamp is read as "".
ValidateMcpData(data) ==
    IF "scrape" \notin DOMAIN data
    THEN [isValid |-> FALSE, errors |-> <<[index |-> -1, error |-> "scrape"]>>]
    ELSE LET errors == (IF data.scrape.timestamp = ""
                        THEN <<[index |-> -1, error |-> "timestamp"]>> ELSE <<>>)
                       \o (IF "items" \notin DOMAIN data.scrape
                           THEN <<[index |-> -1, error |-> "items"]>>
                           ELSE ItemsErrors(data.scrape.items, Len(data.scrape.items)))
         IN [isValid |-> Len(errors) = 0, errors |-> errors]

\* (mutant) the payload goes out without the validation gate
PayloadAcceptedUnchecked(r) == TRUE

\* validation.isValid of the transformed result
PayloadAccepted(r) == ValidateMcpData(TransformScrapingResultToMcp(r)).isValid

\* ---- invocations ---------------------------------------------------------
\* The fields of one McpClient object.
FreshClient ==
    [isConnected |-> FALSE, ws |-> 0, pendingCalls |-> <<>>, callIdCounter |-> 0,
     socks |-> <<>>, conns |-> <<>>, calls |-> <<>>, timers |-> <<>>,
     retries |-> <<>>, sent |-> <<>>, emitted |-> <<>>, handled |-> "none"]

\* The client variables become those of client object c.
SetClient(c) ==
    /\ isConnected' = c.isConnected
    /\ ws' = c.ws
    /\ pendingCalls' = c.pendingCalls
    /\ callIdCounter' = c.callIdCounter
    /\ socks' = c.socks
    /\ conns' = c.conns
    /\ calls' = c.calls
    /\ timers' = c.timers
    /\ retries' = c.retries
    /\ sent' = c.sent
    /\ emitted' = c.emitted
    /\ handled' = c.handled
    /\ UNCHANGED <<retryAttempts, errorListeners, urlValid, crashed>>

\* One invocation of saveResultsWithMcp.  error is what its catch block caught,
\* thrown what it threw to its caller, wrote whether its saveResultsToFile wrote
\* the file, delivered whether callTool (its own or a retry's) returned.  The
\* client variables are the mcpClient of the innermost running invocation.  The
\* mcpClient of an invocation that waits for its retry is a different object,
\* which nothing uses again but the disconnect() of its finally block: it is
\* left out while the retry runs, and stands as a client without a socket
\* afterwards.
NewFrame ==
    [pc |-> "start", error |-> "none", thrown |-> "none", tools |-> NoTools,
     tool |-> "", wrote |-> FALSE, delivered |-> FALSE]

Top == frames[Len(frames)]
SetTop(f) == frames' = [frames EXCEPT ![Len(frames)] = f]
Caught(e) == SetTop([Top EXCEPT !.pc = "analyzing", !.error = e])

\* new McpClient(); await mcpClient.connect()
RelayConnect ==
    /\ ~crashed
    /\ Top.pc = "start"
    /\ DoConnect
    /\ SetTop([Top EXCEPT !.pc = "connecting"])
    /\ UNCHANGED <<result, fileSaves, scrapeVars, dbVars, stageVars>>

\* connect() settled: listTools() is called, or the catch block is entered.
RelayConnected ==
    /\ ~crashed
    /\ Top.pc = "connecting"
    /\ conns[1].state # "pending"
    /\ IF conns[1].state = "resolved"
       THEN /\ \E t \in BOOLEAN : CallMethod("listTools", "tools/list", t)
            /\ SetTop([Top EXCEPT !.pc = "listing"])
       ELSE /\ Caught(conns[1].error)
            /\ UNCHANGED clientVars
    /\ UNCHANGED <<result, fileSaves, scrapeVars, dbVars, stageVars>>

\* listTools() settled: an empty list throws 'No MCP tools available', another
\* list goes to selectBestMcpTool.
RelayListed ==
    /\ ~crashed
    /\ Top.pc = "listing"
    /\ calls[1].ret.state # "pending"
    /\ IF calls[1].ret.state = "threw"
       THEN Caught(calls[1].ret.error)
       ELSE IF Len(calls[1].ret.tools) = 0
       THEN Caught("no_tools")
       ELSE SetTop([Top EXCEPT !.pc = "selecting", !.tools = calls[1].ret.tools])
    /\ UNCHANGED <<clientVars, result, fileSaves, scrapeVars, dbVars, stageVars>>

\* selectBestMcpTool settled: with tool number i of the list (the assistant's
\* choice, or tools[0] after a failed request), or, i = 0, with the error of
\* the logResponse in its catch block.  The payload is transformed and
\* validated, and only a valid one is handed to callTool.
RelaySelected(i) ==
    /\ ~crashed
    /\ Top.pc = "selecting"
    /\ IF i = 0
       THEN /\ Caught("select_failed")
            /\ UNCHANGED clientVars
       ELSE IF ~PayloadAccepted(result)
       THEN /\ Caught("validation")
            /\ UNCHANGED clientVars
       ELSE /\ i \in DOMAIN Top.tools
            /\ \E t \in BOOLEAN : CallMethod("callTool", "tools/call", t)
            /\ SetTop([Top EXCEPT !.pc = "saving", !.tool = Top.tools[i]])
    /\ UNCHANGED <<result, fileSaves, scrapeVars, dbVars, stageVars>>

\* callTool() settled: success runs the finally block and returns.
RelaySaved ==
    /\ ~crashed
    /\ Top.pc = "saving"
    /\ calls[Len(calls)].ret.state # "pending"
    /\ IF calls[Len(calls)].ret.state = "returned"
       THEN /\ DoDisconnect
            /\ SetTop([Top EXCEPT !.pc = "returned", !.delivered = TRUE])
       ELSE /\ Caught(calls[Len(calls)].ret.error)
            /\ UNCHANGED clientVars
    /\ UNCHANGED <<result, fileSaves, scrapeVars, dbVars, stageVars>>

\* analyzeMcpError settled.  retry: isRecoverable with action 'retry' (also
\* what its own catch block answers).  Every other outcome (isFatal, which
\* throws into the inner catch; another action; an exception) reaches the file
\* fallback.
\* analysis is what analyzeMcpError came to: "collaborator_failed" (callOpenAI
\* or parseAIResponse threw and its catch block answered), "retry" (the
\* assistant's verdict), "other".
Analyses == {"collaborator_failed", "retry", "other"}

\* errorAnalysis.isRecoverable && errorAnalysis.action === 'retry'
Retries(analysis) == analysis \in {"collaborator_failed", "retry"}

RelayAnalyzed(analysis) ==
    /\ ~crashed
    /\ Top.pc = "analyzing"
    /\ IF Retries(analysis)
       THEN /\ Len(frames) < MaxDepth
            /\ SetTop([Top EXCEPT !.pc = "delaying"])
       ELSE SetTop([Top EXCEPT !.pc = "fallback"])
    /\ UNCHANGED <<clientVars, result, fileSaves, scrapeVars, dbVars, stageVars>>

\* The retry delay is over: return await saveResultsWithMcp(result)
RelayRetry ==
    /\ ~crashed
    /\ Top.pc = "delaying"
    /\ frames' = Append([frames EXCEPT ![Len(frames)] = [Top EXCEPT !.pc = "awaiting"]],
                        NewFrame)
    /\ SetClient(FreshClient)
    /\ UNCHANGED <<result, fileSaves, scrapeVars, dbVars, stageVars>>

\* The retry settled: its success is returned through the finally block, its
\* error is caught by the inner catch and leads to the file fallback.
RelayUnwind ==
    /\ ~crashed
    /\ Len(frames) > 1
    /\ Top.pc \in {"returned", "threw"}
    /\ LET parent == frames[Len(frames) - 1]
       IN /\ frames' = [SubSeq(frames, 1, Len(frames) - 1) EXCEPT ![Len(frames) - 1] =
                           IF Top.pc = "returned"
                           THEN [parent EXCEPT !.pc = "finally", !.delivered = TRUE]
                           ELSE [parent EXCEPT !.pc = "fallback"]]
          /\ SetClient(FreshClient)
    /\ UNCHANGED <<result, fileSaves, scrapeVars, dbVars, stageVars>>

\* finally { await mcpClient.disconnect() } after the retry returned
RelayFinally ==
    /\ ~crashed
    /\ Top.pc = "finally"
    /\ DoDisconnect
    /\ SetTop([Top EXCEPT !.pc = "returned"])
    /\ UNCHANGED <<result, fileSaves, scrapeVars, dbVars, stageVars>>

\* await saveResultsToFile(result); throw error; and the finally block.  When
\* fs.writeFile rejects, its error is thrown instead.
RelayFallback(writeOk) ==
    /\ ~crashed
    /\ Top.pc = "fallback"
    /\ DoDisconnect
    /\ IF writeOk
       THEN /\ fileSaves' = fileSaves + 1
            /\ SetTop([Top EXCEPT !.pc = "threw", !.wrote = TRUE, !.thrown = Top.error])
       ELSE /\ UNCHANGED fileSaves
            /\ SetTop([Top EXCEPT !.pc = "threw", !.thrown = "write_failed"])
    /\ UNCHANGED <<result, scrapeVars, dbVars, stageVars>>

\* A promise continuation of the innermost invocation is due: it runs before
\* the next socket event or timer.
RelayReady ==
    \/ Top.pc \in {"start", "finally"}
    \/ Top.pc = "connecting" /\ conns[1].state # "pending"
    \/ Top.pc = "listing" /\ calls[1].ret.state # "pending"
    \/ Top.pc = "saving" /\ calls[Len(calls)].ret.state # "pending"
    \/ Len(frames) > 1 /\ Top.pc \in {"returned", "threw"}

\* The outermost invocation settled.
RelayOver == Len(frames) = 1 /\ Top.pc \in {"returned", "threw"}

\* Socket events, frames and timers of the innermost invocation's client.
RelayWaiting == ~RelayReady /\ ~RelayOver
RelaySocketOpen == RelayWaiting /\ \E s \in DOMAIN socks : SocketOpen(s)
RelaySocketError == RelayWaiting /\ \E s \in DOMAIN socks : SocketError(s)
RelaySocketClose ==
    RelayWaiting /\ \E s \in DOMAIN socks : \E code \in CloseCodes : SocketClose(s, code)
RelayConnectTimeout == RelayWaiting /\ ConnectTimeout
RelayMessage == RelayWaiting /\ \E m \in Messages : HandleMessage(m)
RelayCallTimeout == RelayWaiting /\ CallTimeout

\* main() calls saveResultsWithMcp(result) once; MCP_SERVER_URL may be a url
\* that new WebSocket() rejects.
RelayInit ==
    /\ ClientInit
    /\ retryAttempts = 1
    /\ errorListeners = FALSE
    /\ urlValid \in BOOLEAN
    /\ frames = <<NewFrame>>
    /\ result \in SampleResults
    /\ fileSaves = 0
    /\ scrape = NoScrape
    /\ extract = NoExtract
    /\ db = NoDb
    /\ saver = NoSaver
    /\ validation = NoValidation
    /\ dedup = NoDedup
    /\ requests = <<>>

RelayNext ==
    \/ RelayConnect
    \/ RelayConnected
    \/ RelayListed
    \/ \E i \in 0..Len(OneTool) : RelaySelected(i)
    \/ RelaySaved
    \/ \E analysis \in Analyses : RelayAnalyzed(analysis)
    \/ RelayRetry
    \/ RelayUnwind
    \/ RelayFinally
    \/ \E writeOk \in BOOLEAN : RelayFallback(writeOk)
    \/ RelaySocketOpen
    \/ RelaySocketError
    \/ RelaySocketClose
    \/ RelayConnectTimeout
    \/ RelayMessage
    \/ RelayCallTimeout

SpecRelay == RelayInit /\ [][RelayNext]_vars

\* ===================================================================
\* scrapeAllStores
\* ===================================================================
\* The stores and search terms of config/stores (the commented-out ones
\* included), of which a run takes a prefix.
ConfigStores ==
    <<[name |-> "Megekko", requiresBrowser |-> TRUE],
      [name |-> "Coolblue", requiresBrowser |-> FALSE],
      [name |-> "Alternate", requiresBrowser |-> FALSE],
      [name |-> "Azerty", requiresBrowser |-> FALSE]>>
ConfigTerms == <<"Radeon 7700XT", "Radeon 7900XT", "Radeon 7900XTX", "GeForce 5070 ti">>

\* What a search page of a store can hold once extractProducts has read it: the
\* same product may come back for two terms, at another price.
PageItem(storeName, name, price) ==
    [name |-> name, price |-> price, url |-> "/p/" \o name, store |-> storeName,
     category |-> "GPU"]
Pages(store) ==
    {<<PageItem(store.name, "RX 7700 XT", 449)>>,
     <<PageItem(store.name, "RX 7700 XT", 439), PageItem(store.name, "RX 7900 XT", 749)>>}

\* How the strategy of a store can fail: the browser strategy when the page is
\* created (before its try block) or on its selector wait (inside it), the
\* fetch strategy on a non-2xx status (a transport failure of fetch rejects
\* the same await and takes the same path).
Causes(store) ==
    IF store.requiresBrowser THEN {"new_page", "wait_timeout"}
    ELSE {"http_status"}

\* What scrapeStoreWithBrowser / scrapeStoreWithFetch does for one pair.
Outcomes(store) ==
    [ok : {TRUE}, items : Pages(store), cause : {"none"}]
    \cup [ok : {FALSE}, items : {<<>>}, cause : Causes(store)]

\* scrapeStoreWithBrowser launches the browser and creates the page before its
\* try block; browser.close() is in the finally of that block.  The number of
\* browsers an invocation leaves open:
BrowsersLeftOpen(store, outcome) ==
    LET launched == outcome.ok \/ outcome.cause # "launch"
        finallyRuns == outcome.ok \/ outcome.cause \notin {"launch", "new_page"}
    IN IF store.requiresBrowser /\ launched /\ ~finallyRuns THEN 1 ELSE 0

\* a scrapeStore without its catch block
ScrapeStoreRethrows(outcome) ==
    [threw |-> ~outcome.ok, items |-> outcome.items, error |-> outcome.cause]

\* scrapeStore(store, term): the strategy's items, or, from its catch block,
\* the empty list.  It never rejects.
ScrapeStore(outcome) ==
    [threw |-> FALSE, items |-> IF outcome.ok THEN outcome.items ELSE <<>>,
     error |-> "none"]

\* `Failed to scrape ${store.name} for "${searchTerm}": ${error}`
ErrorMsg(storeName, searchTerm, error) ==
    [store |-> storeName, term |-> searchTerm, cause |-> error]

\* (mutant) the index of the last element with the product's name and store
FindLastIndex(self, product) ==
    CHOOSE i \in DOMAIN self :
        /\ self[i].name = product.name /\ self[i].store = product.store
        /\ \A j \in (i + 1)..Len(self) :
              ~(self[j].name = product.name /\ self[j].store = product.store)

\* self.findIndex(p => p.name === product.name && p.store === product.store)
FindIndex(self, product) ==
    CHOOSE i \in DOMAIN self :
        /\ self[i].name = product.name /\ self[i].store = product.store
        /\ \A j \in 1..(i - 1) :
              ~(self[j].name = product.name /\ self[j].store = product.store)

\* products.filter((product, index, self) => index === self.findIndex(...)),
\* over the first n elements
\* (mutant) the filter callback also rejects the head of the list
KeepsIndexAfterFirst(self, n) == n > 1 /\ FindIndex(self, self[n]) = n

\* The filter callback: index === self.findIndex(...)
KeepsIndex(self, n) == FindIndex(self, self[n]) = n

RECURSIVE UniqueProducts(_, _)
UniqueProducts(self, n) ==
    IF n = 0 THEN <<>>
    ELSE IF KeepsIndex(self, n)
         THEN Append(UniqueProducts(self, n - 1), self[n])
         ELSE UniqueProducts(self, n - 1)

\* (mutant) the items of a pair replace what was gathered before
AccumulateReplacing(products, storeProducts) == storeProducts

\* products.push(...storeProducts)
Accumulate(products, storeProducts) == products \o storeProducts

\* (mutant) the next invocation does not wait for the one in progress
CallReadyEarly(pc) == pc \in {"loop", "scraping"}

\* The loop body is entered only when the awaits of the previous iteration
\* are over.
CallReady(pc) == pc = "loop"

\* A run of scrapeAllStores(stores, searchTerms).  store and term are the loop
\* positions; failed records the pairs whose strategy failed;
\* log the strategy invocations and delays in order; history what the strategy
\* did for every invocation that finished; inFlight the invocations started
\* and not finished; browsers the browsers launched and not closed.
NewScrape(stores, searchTerms) ==
    [pc |-> "loop", stores |-> stores, terms |-> searchTerms, store |-> 1, term |-> 1,
     products |-> <<>>, errors |-> <<>>, failed |-> <<>>, log |-> <<>>,
     history |-> <<>>, inFlight |-> 0, browsers |-> 0, result |-> NoResult]

\* const storeProducts = await scrapeStore(store, searchTerm): the call
ScrapeCall ==
    /\ CallReady(scrape.pc)
    /\ scrape.store <= Len(scrape.stores)
    /\ scrape.term <= Len(scrape.terms)
    /\ scrape' = [scrape EXCEPT
                    !.pc = "scraping",
                    !.inFlight = @ + 1,
                    !.log = Append(@, [ev |-> "invoke", store |-> scrape.store,
                                       term |-> scrape.term])]
    /\ UNCHANGED <<clientVars, relayVars, extract, dbVars, stageVars>>

\* scrapeStore settled: its items are pushed and the inter-term delay starts,
\* or its rejection is caught and recorded.
ScrapeReturn(outcome) ==
    /\ scrape.pc = "scraping"
    /\ LET store == scrape.stores[scrape.store]
           searchTerm == scrape.terms[scrape.term]
           r == ScrapeStore(outcome)
           failed == IF outcome.ok THEN scrape.failed
                     ELSE Append(scrape.failed,
                                 ErrorMsg(store.name, searchTerm, outcome.cause))
           history == Append(scrape.history,
                             [store |-> scrape.store, term |-> scrape.term,
                              outcome |-> outcome])
       IN /\ outcome \in Outcomes(store)
          /\ IF r.threw
             THEN scrape' = [scrape EXCEPT
                                !.pc = "loop",
                                !.term = @ + 1,
                                !.failed = failed,
                                !.history = history,
                                !.inFlight = @ - 1,
                                !.browsers = @ + BrowsersLeftOpen(store, outcome),
                                !.errors = Append(@, ErrorMsg(store.name, searchTerm, r.error))]
             ELSE scrape' = [scrape EXCEPT
                                !.pc = "term_delay",
                                !.failed = failed,
                                !.history = history,
                                !.inFlight = @ - 1,
                                !.browsers = @ + BrowsersLeftOpen(store, outcome),
                                !.products = Accumulate(@, r.items)]
    /\ UNCHANGED <<clientVars, relayVars, extract, dbVars, stageVars>>

\* await delay(1000) is over
TermDelay ==
    /\ scrape.pc = "term_delay"
    /\ scrape' = [scrape EXCEPT
                    !.pc = "loop",
                    !.term = @ + 1,
                    !.log = Append(@, [ev |-> "delay_1000", store |-> scrape.store,
                                       term |-> scrape.term])]
    /\ UNCHANGED <<clientVars, relayVars, extract, dbVars, stageVars>>

\* The terms of a store are done: await delay(2000), then the next store.
StoreDelay ==
    /\ scrape.pc = "loop"
    /\ scrape.store <= Len(scrape.stores)
    /\ scrape.term > Len(scrape.terms)
    /\ scrape' = [scrape EXCEPT
                    !.store = @ + 1,
                    !.term = 1,
                    !.log = Append(@, [ev |-> "delay_2000", store |-> scrape.store,
                                       term |-> 0])]
    /\ UNCHANGED <<clientVars, relayVars, extract, dbVars, stageVars>>

\* The stores are done: the accumulator is deduplicated and returned.
ScrapeDone ==
    /\ scrape.pc = "loop"
    /\ scrape.store > Len(scrape.stores)
    /\ scrape' = [scrape EXCEPT
                    !.pc = "done",
                    !.result = [products |-> UniqueProducts(scrape.products,
                                                            Len(scrape.products)),
                                errors |-> scrape.errors]]
    /\ UNCHANGED <<clientVars, relayVars, extract, dbVars, stageVars>>

ScrapeInit ==
    /\ ClientInit
    /\ retryAttempts = 1
    /\ errorListeners = FALSE
    /\ urlValid = TRUE
    /\ frames = NoFrames
    /\ result = NoResult
    /\ fileSaves = 0
    /\ \E n \in 0..MaxStores : \E m \in 0..MaxTerms :
          scrape = NewScrape(SubSeq(ConfigStores, 1, n), SubSeq(ConfigTerms, 1, m))
    /\ extract = NoExtract
    /\ db = NoDb
    /\ saver = NoSaver
    /\ validation = NoValidation
    /\ dedup = NoDedup
    /\ requests = <<>>

ScrapeOutcomes == UNION {Outcomes(ConfigStores[i]) : i \in DOMAIN ConfigStores}

ScrapeNext ==
    \/ ScrapeCall
    \/ \E outcome \in ScrapeOutcomes : ScrapeReturn(outcome)
    \/ TermDelay
    \/ StoreDelay
    \/ ScrapeDone

SpecScrape == ScrapeInit /\ [][ScrapeNext]_vars

\* The same run under the event loop's scheduling: a continuation that is due
\* runs, every strategy call settles (navigation, selector wait and load wait
\* have timeouts), every delay timer fires.
SpecScrapeFair == SpecScrape /\ WF_vars(ScrapeNext)

\* ===================================================================
\* The extractors (scraping.ts)
\* ===================================================================
\* Texts are sequences of characters.
UpperChars == <<"A", "B", "C", "D", "E", "F", "G", "H", "I", "J", "K", "L", "M", "N", "O", "P", "Q", "R", "S", "T", "U", "V", "W", "X", "Y", "Z">>
LowerChars == <<"a", "b", "c", "d", "e", "f", "g", "h", "i", "j", "k", "l", "m", "n", "o", "p", "q", "r", "s", "t", "u", "v", "w", "x", "y", "z">>
IsSpace(c) == c = " "

\* String.prototype.toLowerCase
ToLowerCase(text) ==
    [i \in DOMAIN text |->
        IF \E k \in DOMAIN UpperChars : UpperChars[k] = text[i]
        THEN LowerChars[CHOOSE k \in DOMAIN UpperChars : UpperChars[k] = text[i]]
        ELSE text[i]]

NotSpace(c) == ~IsSpace(c)
\* text.replace(/\s+/g, "")
RemoveWhitespace(text) == SelectSeq(text, NotSpace)

\* String.prototype.trim
RECURSIVE Trim(_)
Trim(text) ==
    IF text = <<>> THEN <<>>
    ELSE IF IsSpace(Head(text)) THEN Trim(Tail(text))
    ELSE IF IsSpace(text[Len(text)]) THEN Trim(SubSeq(text, 1, Len(text) - 1))
    ELSE text

\* String.prototype.startsWith
StartsWith(text, prefix) ==
    Len(prefix) <= Len(text) /\ SubSeq(text, 1, Len(prefix)) = prefix

\* String.prototype.includes
Includes(text, part) ==
    \E i \in 1..(Len(text) - Len(part) + 1) : SubSeq(text, i, i + Len(part) - 1) = part

GPU_KEYWORDS ==
    <<<<"7", "7", "0", "0", "x", "t">>,
      <<"7", "9", "0", "0", "x", "t">>,
      <<"7", "9", "0", "0", "x", "t", "x">>,
      <<"R", "a", "d", "e", "o", "n">>,
      <<"X", "F", "X">>,
      <<"M", "S", "I">>,
      <<"S", "h", "a", "p", "p", "h", "i", "r", "e">>,
      <<"P", "o", "w", "e", "r", "C", "o", "l", "o", "r">>,
      <<"G", "i", "g", "a", "b", "y", "t", "e">>,
      <<"5", "0", "7", "0", " ", "t", "i">>,
      <<"5", "0", "8", "0">>,
      <<"4", "0", "7", "0", " ", "t", "i", " ", "s", "u", "p", "e", "r">>,
      <<"G", "e", "F", "o", "r", "c", "e">>>>

CPU_KEYWORDS ==
    <<<<"r", "y", "z", "e", "n", " ", "7">>,
      <<"r", "y", "z", "e", "n", " ", "9">>,
      <<"r", "y", "z", "e", "n", " ", "5">>>>

\* isGPU(productName)
IsGPU(productName) ==
    LET name == ToLowerCase(RemoveWhitespace(productName))
    IN \E k \in DOMAIN GPU_KEYWORDS : Includes(name, ToLowerCase(GPU_KEYWORDS[k]))

\* isCPU(productName)
IsCPU(productName) ==
    LET name == ToLowerCase(RemoveWhitespace(productName))
    IN \E k \in DOMAIN CPU_KEYWORDS : Includes(name, ToLowerCase(CPU_KEYWORDS[k]))

DigitChars == <<"0", "1", "2", "3", "4", "5", "6", "7", "8", "9">>
IsDigit(c) == \E k \in DOMAIN DigitChars : DigitChars[k] = c
DigitValue(c) == (CHOOSE k \in DOMAIN DigitChars : DigitChars[k] = c) - 1

RECURSIVE DigitsValue(_)
DigitsValue(digits) ==
    IF digits = <<>> THEN 0
    ELSE DigitsValue(SubSeq(digits, 1, Len(digits) - 1)) * 10
         + DigitValue(digits[Len(digits)])

\* the longest prefix of digits
RECURSIVE DigitPrefix(_)
DigitPrefix(text) ==
    IF text # <<>> /\ IsDigit(Head(text)) THEN <<Head(text)>> \o DigitPrefix(Tail(text))
    ELSE <<>>

RECURSIVE StripTrailingZeros(_)
StripTrailingZeros(digits) ==
    IF digits # <<>> /\ digits[Len(digits)] = "0"
    THEN StripTrailingZeros(SubSeq(digits, 1, Len(digits) - 1))
    ELSE digits

\* parseFloat of a text of digits, dots and commas: the digits, then an
\* optional dot and digits; NaN when there is no digit at the start.
ParseFloat(text) ==
    LET int == DigitPrefix(text)
        rest == SubSeq(text, Len(int) + 1, Len(text))
        frac == IF rest # <<>> /\ Head(rest) = "." THEN DigitPrefix(Tail(rest)) ELSE <<>>
        kept == StripTrailingZeros(frac)
    IN IF int = <<>> /\ frac = <<>> THEN NaN
       ELSE Num(DigitsValue(int \o kept), Len(kept))

\* ---- extractProductName ---------------------------------------------------
\* An element is given by what the selectors find in it: names[i] and
\* prices[i] are the texts of the elements the i-th name / price selector
\* matches, in document order; anchors the href of every descendant a[href],
\* in document order; href the element's own href ("" when it has none).
\* element.querySelector(selector)?.textContent?.trim() || ""
SelectorText(matches) == IF matches = <<>> THEN <<>> ELSE Trim(Head(matches))

\* the first index of seq whose element satisfies Test, 0 when there is none
FirstIndex(seq, Test(_)) ==
    IF \E i \in DOMAIN seq : Test(seq[i])
    THEN CHOOSE i \in DOMAIN seq : Test(seq[i]) /\ \A j \in 1..(i - 1) : ~Test(seq[j])
    ELSE 0

NonEmpty(text) == text # <<>>

\* (mutant) the first selector that matches an element decides
ExtractProductNameFirstMatch(names) ==
    LET i == FirstIndex(names, NonEmpty)
    IN IF i = 0 THEN <<>> ELSE SelectorText(names[i])

\* extractProductName(element, nameSelectors)
ExtractProductName(names) ==
    LET texts == [i \in DOMAIN names |-> SelectorText(names[i])]
        i == FirstIndex(texts, NonEmpty)
    IN IF i = 0 THEN <<>> ELSE texts[i]

\* ---- extractProductPrice --------------------------------------------------
IsPriceChar(c) == IsDigit(c) \/ c = "," \/ c = "."
NotDot(c) == c # "."
IsComma(c) == c = ","

\* text.replace(",", "."): the first comma only
ReplaceFirstComma(text) ==
    LET i == FirstIndex(text, IsComma)
    IN IF i = 0 THEN text ELSE [text EXCEPT ![i] = "."]

\* .replace(/[^\d,.]/g, "").replace(/\./g, "").replace(",", ".").trim()
PriceText(text) ==
    Trim(ReplaceFirstComma(SelectSeq(SelectSeq(text, IsPriceChar), NotDot)))

\* the callback of priceSelectors.map
SelectorPrice(matches) ==
    IF matches # <<>> /\ Trim(Head(matches)) # <<>>
    THEN IF PriceText(Head(matches)) # <<>>
         THEN ParseFloat(PriceText(Head(matches)))
         ELSE MinusOne
    ELSE MinusOne

\* (mutant) the first selector with an element decides, positive or not
ExtractProductPriceFirstMatch(prices) ==
    LET i == FirstIndex(prices, NonEmpty)
    IN IF i = 0 THEN MinusOne ELSE SelectorPrice(prices[i])

\* extractProductPrice(element, priceSelectors)
ExtractProductPrice(prices) ==
    LET values == [i \in DOMAIN prices |-> SelectorPrice(prices[i])]
        i == FirstIndex(values, Positive)
    IN IF i = 0 THEN MinusOne ELSE values[i]

\* ---- extractProductUrl ----------------------------------------------------
Http == <<"h", "t", "t", "p">>

\* extractProductUrl(element, storeBaseUrl)
ExtractProductUrl(element, storeBaseUrl) ==
    LET i == FirstIndex(element.anchors, NonEmpty)
    IN IF i # 0
       THEN IF StartsWith(element.anchors[i], Http)
            THEN element.anchors[i]
            ELSE storeBaseUrl \o element.anchors[i]
       ELSE IF element.href # <<>> THEN element.href
       ELSE <<>>

\* ---- extractSingleProduct -------------------------------------------------
Null == [present |-> FALSE, name |-> <<>>, price |-> MinusOne, url |-> <<>>,
         store |-> "", category |-> ""]

\* extractSingleProduct(element, storeName, storeBaseUrl, nameSelectors,
\* priceSelectors)
ExtractSingleProduct(element, storeName, storeBaseUrl) ==
    LET name == ExtractProductName(element.names)
        price == ExtractProductPrice(element.prices)
        url == ExtractProductUrl(element, storeBaseUrl)
    IN IF name = <<>> \/ Falsy(price) THEN Null
       ELSE [present |-> TRUE, name |-> name, price |-> price, url |-> url,
             store |-> storeName,
             category |-> IF IsGPU(name) THEN "GPU" ELSE "CPU"]

\* ---- one element through extractSingleProduct ------------------------------
NoText == <<>>
BlankText == <<" ">>
PlainName == <<"R", "X", " ", "7", "7", "0", "0", "X", "T">>
PaddedName == <<" ", "R", "y", "z", "e", "n", " ", "7", " ">>

\* what one name selector can match in the element
NameMatches ==
    {<<>>, <<NoText>>, <<BlankText>>, <<PlainName>>, <<PaddedName>>,
     <<BlankText, PlainName>>}

EuroPrice == <<"€", "1", ".", "2", "3", "4", ",", "5", "6">>
PaddedPrice == <<" ", "4", "9", "9", " ">>
ZeroPrice == <<"0", ",", "0", "0">>
WordsPrice == <<"a", "b", "c">>
CommaPrice == <<",">>

\* what one price selector can match in the element
PriceMatches ==
    {<<>>, <<BlankText>>, <<WordsPrice>>, <<EuroPrice>>, <<ZeroPrice>>,
     <<CommaPrice>>, <<PaddedPrice>>}

AbsoluteHref == <<"h", "t", "t", "p", "s", ":", "/", "/", "a", ".", "n", "l", "/", "p">>
OwnHref == <<"h", "t", "t", "p", "s", ":", "/", "/", "b", ".", "n", "l", "/", "q">>
RootRelativeHref == <<"/", "p", "/", "1">>
PathRelativeHref == <<"h", "t", "t", "p", "-", "k", "a", "b", "e", "l", "/", "1">>
BaseUrl == <<"h", "t", "t", "p", "s", ":", "/", "/", "w", "w", "w", ".", "m", "e", "g", "e", "k", "k", "o", ".", "n", "l">>

\* the href of an anchor: "" for <a href="">, an absolute url, a path from the
\* root, a path relative to the page
Hrefs == {NoText, AbsoluteHref, RootRelativeHref, PathRelativeHref}

DefaultNames == [i \in 1..MaxSelectors |-> IF i = 1 THEN <<PlainName>> ELSE <<>>]
DefaultPrices == [i \in 1..MaxSelectors |-> IF i = 1 THEN <<EuroPrice>> ELSE <<>>]
DefaultAnchors == <<RootRelativeHref>>

Elements ==
    [names : [1..MaxSelectors -> NameMatches], prices : {DefaultPrices},
     anchors : {DefaultAnchors}, href : {NoText}]
    \cup [names : {DefaultNames}, prices : [1..MaxSelectors -> PriceMatches],
          anchors : {DefaultAnchors}, href : {NoText}]
    \cup [names : {DefaultNames}, prices : {DefaultPrices},
          anchors : UNION {[1..n -> Hrefs] : n \in 0..MaxAnchors},
          href : {NoText, OwnHref}]

NewExtract(element) ==
    [pc |-> "name", element |-> element, name |-> <<>>, price |-> MinusOne,
     url |-> <<>>, product |-> Null]

\* const name = extractProductName(element, nameSelectors)
ExtractNameStep ==
    /\ extract.pc = "name"
    /\ extract' = [extract EXCEPT !.pc = "price",
                                  !.name = ExtractProductName(extract.element.names)]
    /\ UNCHANGED <<clientVars, relayVars, scrape, dbVars, stageVars>>

\* const price = extractProductPrice(element, priceSelectors)
ExtractPriceStep ==
    /\ extract.pc = "price"
    /\ extract' = [extract EXCEPT !.pc = "url",
                                  !.price = ExtractProductPrice(extract.element.prices)]
    /\ UNCHANGED <<clientVars, relayVars, scrape, dbVars, stageVars>>

\* const url = extractProductUrl(element, storeBaseUrl)
ExtractUrlStep ==
    /\ extract.pc = "url"
    /\ extract' = [extract EXCEPT !.pc = "product",
                                  !.url = ExtractProductUrl(extract.element, BaseUrl)]
    /\ UNCHANGED <<clientVars, relayVars, scrape, dbVars, stageVars>>

\* the rejection test and the returned Item
ExtractProductStep ==
    /\ extract.pc = "product"
    /\ extract' = [extract EXCEPT
                      !.pc = "done",
                      !.product = ExtractSingleProduct(extract.element, "Megekko", BaseUrl)]
    /\ UNCHANGED <<clientVars, relayVars, scrape, dbVars, stageVars>>

ExtractInit ==
    /\ ClientInit
    /\ retryAttempts = 1
    /\ errorListeners = FALSE
    /\ urlValid = TRUE
    /\ frames = NoFrames
    /\ result = NoResult
    /\ fileSaves = 0
    /\ scrape = NoScrape
    /\ extract \in {NewExtract(element) : element \in Elements}
    /\ db = NoDb
    /\ saver = NoSaver
    /\ validation = NoValidation
    /\ dedup = NoDedup
    /\ requests = <<>>

ExtractNext ==
    \/ ExtractNameStep
    \/ ExtractPriceStep
    \/ ExtractUrlStep
    \/ ExtractProductStep

SpecExtract == ExtractInit /\ [][ExtractNext]_vars

\* ===================================================================
\* extractProducts over a whole document (scraping.ts)
\* ===================================================================
MaxElements == 2
MaxProductSelectors == 2

CpuName == <<"R", "y", "z", "e", "n", " ", "7", " ", "9", "8", "0", "0", "X", "3", "D">>
BundleName == <<"M", "S", "I", " ", "R", "y", "z", "e", "n", " ", "5">>
SpacedGpuName == <<"R", "T", "X", " ", "5", "0", "7", "0", " ", "T", "i">>
OtherName == <<"K", "a", "b", "e", "l">>

\* the names the product elements of a page carry; NoText is an element
\* without a name
ProductNames == {PlainName, CpuName, BundleName, SpacedGpuName, OtherName, NoText}

ProductElement(name) ==
    [names |-> [i \in 1..MaxSelectors |-> IF i = 1 THEN <<name>> ELSE <<>>],
     prices |-> DefaultPrices, anchors |-> DefaultAnchors, href |-> NoText]

\* a card without a link in its element, and a card without a price
NoLinkElement == [ProductElement(PlainName) EXCEPT !.anchors = <<>>]
NoPriceElement ==
    [ProductElement(PlainName) EXCEPT !.prices = [i \in 1..MaxSelectors |-> <<>>]]

ProductElements ==
    UNION {[1..n -> {ProductElement(name) : name \in ProductNames}
                    \cup {NoLinkElement, NoPriceElement}] : n \in 0..MaxElements}

\* document.querySelectorAll(productSelector) for each of PRODUCT_SELECTORS:
\* the first selector matches any list of elements, the later ones nothing or
\* one element
Documents ==
    {[k \in 1..MaxProductSelectors |-> IF k = 1 THEN first ELSE later[k]] :
        first \in ProductElements,
        later \in [2..MaxProductSelectors -> {<<>>, <<ProductElement(PlainName)>>}]}

NewProducts(document) ==
    [pc |-> "select", document |-> document, selected |-> 0, index |-> 1,
     products |-> <<>>, out |-> <<>>]

\* (mutant) the loop has no break: the last selector that matches decides
LastMatchingSelector(document) ==
    IF \A i \in DOMAIN document : document[i] = <<>> THEN 0
    ELSE CHOOSE i \in DOMAIN document :
            document[i] # <<>> /\ \A j \in DOMAIN document : j > i => document[j] = <<>>

\* the selector the loop stops at: if (productElements.length > 0) { ...; break },
\* 0 when no selector matches
SelectedSelector(document) == FirstIndex(document, NonEmpty)

\* the for loop over PRODUCT_SELECTORS up to its break: the first selector
\* with productElements.length > 0
ProductsSelectStep ==
    /\ extract.pc = "select"
    /\ LET selected == SelectedSelector(extract.document)
       IN extract' = [extract EXCEPT !.selected = selected,
                                     !.pc = IF selected = 0 THEN "filter" ELSE "elements"]
    /\ UNCHANGED <<clientVars, relayVars, scrape, dbVars, stageVars>>

\* one turn of productElements.forEach: extractSingleProduct, and the push
\* when it returned a product
ProductsElementStep ==
    /\ extract.pc = "elements"
    /\ LET elements == extract.document[extract.selected]
           product == ExtractSingleProduct(elements[extract.index], "Megekko", BaseUrl)
       IN extract' = [extract EXCEPT
                         !.products = IF product.present THEN Append(@, product) ELSE @,
                         !.index = @ + 1,
                         !.pc = IF extract.index = Len(elements) THEN "filter" ELSE "elements"]
    /\ UNCHANGED <<clientVars, relayVars, scrape, dbVars, stageVars>>

\* (mutant) the filter keeps every product
KeepsEveryProduct(product) == TRUE

\* (product) => isGPU(product.name) || isCPU(product.name)
KeepsProduct(product) == IsGPU(product.name) \/ IsCPU(product.name)

\* return products.filter(...)
ProductsFilterStep ==
    /\ extract.pc = "filter"
    /\ extract' = [extract EXCEPT !.out = SelectSeq(extract.products, KeepsProduct),
                                  !.pc = "returned"]
    /\ UNCHANGED <<clientVars, relayVars, scrape, dbVars, stageVars>>

ProductsInit ==
    /\ ClientInit
    /\ retryAttempts = 1
    /\ errorListeners = FALSE
    /\ urlValid = TRUE
    /\ frames = NoFrames
    /\ result = NoResult
    /\ fileSaves = 0
    /\ scrape = NoScrape
    /\ extract \in {NewProducts(document) : document \in Documents}
    /\ db = NoDb
    /\ saver = NoSaver
    /\ validation = NoValidation
    /\ dedup = NoDedup
    /\ requests = <<>>

ProductsNext ==
    \/ ProductsSelectStep
    \/ ProductsElementStep
    \/ ProductsFilterStep

SpecProducts == ProductsInit /\ [][ProductsNext]_vars

\* ===================================================================
\* validateMcpData, called on payloads of every shape
\* ===================================================================

\* items of one payload
MaxItems == 2

GoodItem == TransformItemToMcp(GoodGpu, CreateStoreMap(<<GoodGpu>>))
GoodCpuItem == TransformItemToMcp(GoodCpu, CreateStoreMap(<<GoodCpu>>))

\* an item without a store object
StorelessItem == [price |-> GoodItem.price, name |-> GoodItem.name,
                  url |-> GoodItem.url, item_type |-> GoodItem.item_type]

\* A good item of each type, and items that differ from a good one in one
\* field: the price is a number in all of them.
ItemSamples ==
    {GoodItem, GoodCpuItem, StorelessItem}
    \cup {[GoodItem EXCEPT !.name = ""], [GoodItem EXCEPT !.url = ""]}
    \cup {[GoodItem EXCEPT !.price = price] : price \in {NaN, Num(0, 0), MinusOne}}
    \cup {[GoodItem EXCEPT !.item_type = type] : type \in {"", "RAM"}}
    \cup {[GoodItem EXCEPT !.store.name = ""]}

ItemLists == UNION {[1..n -> ItemSamples] : n \in 0..MaxItems}

\* Payloads: without scrape object, with a scrape whose items is not an
\* array, and with a list of items under a timestamp that is there or not.
Payloads ==
    {[items |-> <<>>]}
    \cup {[scrape |-> [timestamp |-> timestamp]] : timestamp \in {"", "now"}}
    \cup {[scrape |-> [timestamp |-> timestamp, items |-> items]] :
             timestamp \in {"", "now"}, items \in ItemLists}

NewValidation(data) ==
    [pc |-> "called", data |-> data, out |-> [isValid |-> FALSE, errors |-> <<>>]]

ValidateStep ==
    /\ validation.pc = "called"
    /\ validation' = [validation EXCEPT !.pc = "returned",
                                        !.out = ValidateMcpData(validation.data)]
    /\ UNCHANGED <<clientVars, relayVars, scrapeVars, dbVars, dedup, requests>>

ValidateInit ==
    /\ ClientInit
    /\ retryAttempts = 1
    /\ errorListeners = FALSE
    /\ urlValid = TRUE
    /\ frames = NoFrames
    /\ result = NoResult
    /\ fileSaves = 0
    /\ scrape = NoScrape
    /\ extract = NoExtract
    /\ db = NoDb
    /\ saver = NoSaver
    /\ validation \in {NewValidation(data) : data \in Payloads}
    /\ dedup = NoDedup
    /\ requests = <<>>

ValidateNext == ValidateStep

SpecValidate == ValidateInit /\ [][ValidateNext]_vars

\* ===================================================================
\* database: saveProducts (better-sqlite3, one connection, synchronous)
\* ===================================================================

\* saveProducts calls made, and products processed by one call
MaxSaves == 2
MaxBatch == 2

\* A listing, the same listing seen again at another price and url, the same
\* name at another store, the same name and store under the other category,
\* and an item whose category the schema's CHECK refuses.
Listing == [name |-> "RX 7700 XT", price |-> 449, url |-> "https://www.megekko.nl/p/1",
            store |-> "Megekko", category |-> "GPU"]
ListingRepriced == [name |-> "RX 7700 XT", price |-> 439,
                    url |-> "https://www.megekko.nl/p/2",
                    store |-> "Megekko", category |-> "GPU"]
ListingElsewhere == [name |-> "RX 7700 XT", price |-> 459,
                     url |-> "https://www.coolblue.nl/p/1",
                     store |-> "Coolblue", category |-> "GPU"]
ListingOtherCategory == [name |-> "RX 7700 XT", price |-> 449,
                         url |-> "https://www.megekko.nl/p/1",
                         store |-> "Megekko", category |-> "CPU"]
ListingRefused == [name |-> "DDR5 32GB", price |-> 99, url |-> "https://www.megekko.nl/p/3",
                   store |-> "Azerty", category |-> "RAM"]
DbProducts == {Listing, ListingRepriced, ListingElsewhere, ListingOtherCategory,
               ListingRefused}

\* item_type TEXT NOT NULL CHECK (item_type IN ('CPU', 'GPU'))
ItemTypes == {"CPU", "GPU"}

\* INTEGER PRIMARY KEY: the rowid of an insert is the largest rowid plus one;
\* no statement deletes, so a table is the sequence of its rows by id.
LastInsertRowid(table) == Len(table) + 1

\* a lookup that finds nothing
FindStoreIdNever(d, storeName) == 0

\* SELECT id FROM store WHERE name = ?  (0: no row)
FindStoreId(d, storeName) ==
    LET Named(row) == row.name = storeName
    IN FirstIndex(d.store, Named)

InsertStore(d, storeName) ==
    [db |-> [d EXCEPT !.store = Append(@, [name |-> storeName])],
     id |-> LastInsertRowid(d.store)]

GetOrCreateStoreId(d, storeName) ==
    LET existingId == FindStoreId(d, storeName)
    IN IF existingId # 0 THEN [db |-> d, id |-> existingId]
       ELSE InsertStore(d, storeName)

\* a lookup by name alone
FindItemIdByName(d, product, storeId) ==
    LET Same(row) == row.name = product.name
    IN FirstIndex(d.item, Same)

\* SELECT id FROM item WHERE name = ? AND store_id = ? AND item_type = ?
\* (0: no row)
FindItemId(d, product, storeId) ==
    LET Same(row) == /\ row.name = product.name
                     /\ row.store_id = storeId
                     /\ row.item_type = product.category
    IN FirstIndex(d.item, Same)

\* UPDATE item SET price = ?, url = ? WHERE id = ?
UpdateItem(d, product, itemId) ==
    [d EXCEPT !.item[itemId].price = product.price,
              !.item[itemId].url = product.url]

\* INSERT INTO item (...): throws when the CHECK on item_type refuses the row
InsertItem(d, product, storeId) ==
    IF product.category \notin ItemTypes
    THEN [db |-> d, id |-> 0, threw |-> TRUE]
    ELSE [db |-> [d EXCEPT !.item = Append(@, [price |-> product.price,
                                                name |-> product.name,
                                                url |-> product.url,
                                                store_id |-> storeId,
                                                item_type |-> product.category])],
          id |-> LastInsertRowid(d.item),
          threw |-> FALSE]

GetOrCreateItemId(d, product, storeId) ==
    LET existingId == FindItemId(d, product, storeId)
    IN IF existingId # 0
       THEN [db |-> UpdateItem(d, product, existingId), id |-> existingId,
             threw |-> FALSE]
       ELSE InsertItem(d, product, storeId)

\* INSERT INTO scrape (timestamp) VALUES (?)
CreateScrapeRecord(d) ==
    [db |-> [d EXCEPT !.scrape = Append(@, [timestamp |-> "now"])],
     id |-> LastInsertRowid(d.scrape)]

\* a plain INSERT that the table takes
LinkItemToScrapeAgain(d, scrapeId, itemId) ==
    [d EXCEPT !.scrape_item = Append(@, <<scrapeId, itemId>>)]

\* INSERT OR IGNORE INTO scrape_item: PRIMARY KEY (scrape_id, item_id), a
\* row whose pair is in the table is not inserted and nothing is raised
LinkItemToScrape(d, scrapeId, itemId) ==
    IF \E k \in DOMAIN d.scrape_item : d.scrape_item[k] = <<scrapeId, itemId>>
    THEN d
    ELSE [d EXCEPT !.scrape_item = Append(@, <<scrapeId, itemId>>)]

ProcessProduct(d, product, scrapeId) ==
    LET store == GetOrCreateStoreId(d, product.store)
        item == GetOrCreateItemId(store.db, product, store.id)
    IN IF item.threw
       THEN [db |-> item.db, storeId |-> store.id, itemId |-> 0, threw |-> TRUE]
       ELSE [db |-> LinkItemToScrape(item.db, scrapeId, item.id),
             storeId |-> store.id, itemId |-> item.id, threw |-> FALSE]

\* SELECT ... FROM item i JOIN store s ON i.store_id = s.id
\* ORDER BY i.id DESC LIMIT ?
QueryLatestProducts(d, limit) ==
    LET n == Len(d.item)
        descending == [k \in 1..n |-> d.item[n - k + 1]]
        Joins(row) == row.store_id \in DOMAIN d.store
        joined == SelectSeq(descending, Joins)
        rows == SubSeq(joined, 1, IF Len(joined) < limit THEN Len(joined) ELSE limit)
    IN [k \in DOMAIN rows |-> [name |-> rows[k].name,
                               price |-> rows[k].price,
                               url |-> rows[k].url,
                               store |-> d.store[rows[k].store_id].name,
                               category |-> rows[k].item_type]]

DefaultLimit == 50

\* a ROLLBACK that undoes the item and scrape_item writes only
RollbackKeepsStores(d, begun) == [begun EXCEPT !.store = d.store]

\* db.transaction(fn): when fn throws, ROLLBACK undoes every write made since
\* BEGIN and the exception is rethrown
Rollback(d, begun) == begun

\* saveProductsToDatabase up to the call of the transaction function: the
\* scrape row is inserted first, then BEGIN.
SaveProductsCall ==
    /\ saver.pc \in {"idle", "returned", "threw"}
    /\ Len(db.scrape) < MaxSaves
    /\ LET created == CreateScrapeRecord(db)
       IN /\ db' = created.db
          /\ saver' = [pc |-> "transaction", scrapeId |-> created.id,
                       begun |-> created.db, index |-> 0, product |-> Listing,
                       storeId |-> 0, itemId |-> 0, issued |-> saver.issued]
    /\ UNCHANGED <<clientVars, relayVars, scrapeVars, stageVars>>

\* One round of products.forEach inside the transaction that goes through.
TransactionStep(product) ==
    /\ saver.pc = "transaction"
    /\ saver.index < MaxBatch
    /\ LET done == ProcessProduct(db, product, saver.scrapeId)
       IN /\ ~done.threw
          /\ db' = done.db
          /\ saver' = [saver EXCEPT !.index = @ + 1, !.product = product,
                                    !.storeId = done.storeId,
                                    !.itemId = done.itemId,
                                    !.issued = @ \cup {<<product.store, done.storeId>>}]
    /\ UNCHANGED <<clientVars, relayVars, scrapeVars, stageVars>>

\* A round that throws: the transaction function rolls back to BEGIN and
\* rethrows, and saveProducts throws.
TransactionRollback(product) ==
    /\ saver.pc = "transaction"
    /\ saver.index < MaxBatch
    /\ LET done == ProcessProduct(db, product, saver.scrapeId)
       IN /\ done.threw
          /\ db' = Rollback(done.db, saver.begun)
          /\ saver' = [saver EXCEPT !.pc = "threw", !.product = product,
                                    !.storeId = done.storeId, !.itemId = 0,
                                    !.issued = @ \cup {<<product.store, done.storeId>>}]
    /\ UNCHANGED <<clientVars, relayVars, scrapeVars, stageVars>>

\* forEach is over: COMMIT, and saveProducts returns the scrape id.
TransactionCommit ==
    /\ saver.pc = "transaction"
    /\ saver' = [saver EXCEPT !.pc = "returned"]
    /\ UNCHANGED <<db, clientVars, relayVars, scrapeVars, stageVars>>

DbInit ==
    /\ ClientInit
    /\ retryAttempts = 1
    /\ errorListeners = FALSE
    /\ urlValid = TRUE
    /\ frames = NoFrames
    /\ result = NoResult
    /\ fileSaves = 0
    /\ scrape = NoScrape
    /\ extract = NoExtract
    /\ db = NoDb
    /\ saver = NoSaver
    /\ validation = NoValidation
    /\ dedup = NoDedup
    /\ requests = <<>>

TransactionSteps == \E product \in DbProducts : TransactionStep(product)
TransactionRollbacks == \E product \in DbProducts : TransactionRollback(product)

DbNext ==
    \/ SaveProductsCall
    \/ TransactionSteps
    \/ TransactionRollbacks
    \/ TransactionCommit

SpecDb == DbInit /\ [][DbNext]_vars

\* ===================================================================
\* Several runs saving to ./data/db.sqlite (database.ts, better-sqlite3)
\* ===================================================================
\* Each run calls saveProducts once. The runs are either in one process (two
\* main() calls of the server, one connection `db`, every statement
\* synchronous) or in processes of their own (one connection each on the
\* same file, the file locks of SQLite between them). db is the file; every
\* run has the view of its connection while its transaction is open.
MaxRuns == 2
Runs == 1..MaxRuns

\* the product lists the runs save: one whose last item the schema refuses
RunBatches == {<<Listing>>, <<ListingElsewhere, Listing>>, <<Listing, ListingRefused>>}

\* the file after an earlier run saved Listing
SavedBefore ==
    LET created == CreateScrapeRecord(NoDb)
    IN ProcessProduct(created.db, Listing, created.id).db

NewRun(products) ==
    [pc |-> "idle", products |-> products, scrapeId |-> 0, lock |-> "none",
     work |-> NoDb, index |-> 0, storeId |-> 0]

NewRuns(sameProcess, batches) ==
    [sameProcess |-> sameProcess, runs |-> [r \in Runs |-> NewRun(batches[r])],
     writes |-> <<>>]

\* saveProducts has no await: in one process no other run is inside it
Synchronous(s, r) ==
    \A o \in Runs \ {r} : s.runs[o].pc \notin {"store", "item"}

\* (mutant) a file without locks
ReservedAlwaysFree(s, r) == TRUE

\* the RESERVED lock a connection takes at the first write of its
\* transaction: no other connection holds it
ReservedFree(s, r) ==
    s.sameProcess \/ \A o \in Runs \ {r} : s.runs[o].lock # "reserved"

\* the EXCLUSIVE lock of a COMMIT and of a statement outside a transaction:
\* no other connection holds any lock
ExclusiveFree(s, r) ==
    s.sameProcess \/ \A o \in Runs \ {r} : s.runs[o].lock \notin {"shared", "reserved"}

\* what the connection of the run reads
View(s, r) == IF s.runs[r].lock = "none" THEN db ELSE s.runs[r].work

Written(r, table, row) == [run |-> r, table |-> table, row |-> row]

\* saveProductsToDatabase up to the transaction: createScrapeRecord, a
\* statement of its own that commits at once
RunSaveProducts(r) ==
    /\ saver.runs[r].pc = "idle"
    /\ saver.sameProcess => Synchronous(saver, r)
    /\ ExclusiveFree(saver, r)
    /\ LET created == CreateScrapeRecord(db)
       IN /\ db' = created.db
          /\ saver' = [saver EXCEPT
                          !.runs[r].pc = "store",
                          !.runs[r].scrapeId = created.id,
                          !.writes = Append(@, Written(r, "scrape", <<created.id>>))]
    /\ UNCHANGED <<clientVars, relayVars, scrapeVars, stageVars>>

\* processProduct, first statement: getOrCreateStoreId. The SELECT takes the
\* SHARED lock, the INSERT of an absent store the RESERVED lock.
RunStoreStep(r) ==
    /\ saver.runs[r].pc = "store"
    /\ saver.runs[r].index < Len(saver.runs[r].products)
    /\ LET view == View(saver, r)
           product == saver.runs[r].products[saver.runs[r].index + 1]
           store == GetOrCreateStoreId(view, product.store)
           wrote == store.db # view
       IN /\ wrote => ReservedFree(saver, r)
          /\ saver' = [saver EXCEPT
                          !.runs[r].pc = "item",
                          !.runs[r].storeId = store.id,
                          !.runs[r].work = store.db,
                          !.runs[r].lock = IF wrote \/ @ = "reserved" THEN "reserved"
                                           ELSE "shared",
                          !.writes = IF wrote
                                     THEN Append(@, Written(r, "store", <<store.id>>))
                                     ELSE @]
    /\ UNCHANGED <<db, clientVars, relayVars, scrapeVars, stageVars>>

\* processProduct, the rest: getOrCreateItemId and linkItemToScrape. An item
\* the schema refuses throws: ROLLBACK, and saveProducts throws.
RunItemStep(r) ==
    /\ saver.runs[r].pc = "item"
    /\ ReservedFree(saver, r)
    /\ LET run == saver.runs[r]
           item == GetOrCreateItemId(run.work, run.products[run.index + 1], run.storeId)
           linked == LinkItemToScrape(item.db, run.scrapeId, item.id)
       IN saver' =
             IF item.threw
             THEN [saver EXCEPT !.runs[r].pc = "threw",
                                !.runs[r].lock = "none",
                                !.runs[r].work = Rollback(item.db, db)]
             ELSE [saver EXCEPT
                      !.runs[r].pc = "store",
                      !.runs[r].index = @ + 1,
                      !.runs[r].lock = "reserved",
                      !.runs[r].work = linked,
                      !.writes = @ \o <<Written(r, "item", <<item.id>>)>>
                                   \o (IF linked # item.db
                                       THEN <<Written(r, "scrape_item",
                                                      <<run.scrapeId, item.id>>)>>
                                       ELSE <<>>)]
    /\ UNCHANGED <<db, clientVars, relayVars, scrapeVars, stageVars>>

\* forEach is over: COMMIT writes the view of the connection to the file
RunCommit(r) ==
    /\ saver.runs[r].pc = "store"
    /\ saver.runs[r].index = Len(saver.runs[r].products)
    /\ saver.runs[r].lock = "none" \/ ExclusiveFree(saver, r)
    /\ db' = View(saver, r)
    /\ saver' = [saver EXCEPT !.runs[r].pc = "returned", !.runs[r].lock = "none"]
    /\ UNCHANGED <<clientVars, relayVars, scrapeVars, stageVars>>

\* SQLITE_BUSY: the lock the next statement needs is held by the connection
\* of another process until the busy timeout is over; the statement throws,
\* the transaction function rolls back and saveProducts throws
RunBusy(r) ==
    /\ ~saver.sameProcess
    /\ \/ saver.runs[r].pc = "idle" /\ ~ExclusiveFree(saver, r)
       \/ /\ saver.runs[r].pc = "store"
          /\ saver.runs[r].index < Len(saver.runs[r].products)
          /\ ~ReservedFree(saver, r)
       \/ /\ saver.runs[r].pc = "store"
          /\ saver.runs[r].index = Len(saver.runs[r].products)
          /\ ~ExclusiveFree(saver, r)
       \/ saver.runs[r].pc = "item" /\ ~ReservedFree(saver, r)
    /\ saver' = [saver EXCEPT !.runs[r].pc = "threw",
                              !.runs[r].lock = "none",
                              !.runs[r].work = Rollback(@, db)]
    /\ UNCHANGED <<db, clientVars, relayVars, scrapeVars, stageVars>>

RunsInit ==
    /\ ClientInit
    /\ retryAttempts = 1
    /\ errorListeners = FALSE
    /\ urlValid = TRUE
    /\ frames = NoFrames
    /\ result = NoResult
    /\ fileSaves = 0
    /\ scrape = NoScrape
    /\ extract = NoExtract
    /\ db \in {NoDb, SavedBefore}
    /\ saver \in {NewRuns(sameProcess, batches) :
                     sameProcess \in BOOLEAN, batches \in [Runs -> RunBatches]}
    /\ validation = NoValidation
    /\ dedup = NoDedup
    /\ requests = <<>>

RunsSaveProducts == \E r \in Runs : RunSaveProducts(r)
RunsStoreStep == \E r \in Runs : RunStoreStep(r)
RunsItemStep == \E r \in Runs : RunItemStep(r)
RunsCommit == \E r \in Runs : RunCommit(r)
RunsBusy == \E r \in Runs : RunBusy(r)

RunsNext ==
    \/ RunsSaveProducts
    \/ RunsStoreStep
    \/ RunsItemStep
    \/ RunsCommit
    \/ RunsBusy

SpecRuns == RunsInit /\ [][RunsNext]_vars

\* ===================================================================
\* deduplicateProducts and its caller processResultsWithAI
\* ===================================================================

\* products handed to one deduplicateProducts call
MaxProducts == 2

DedupItems == {Listing, ListingRepriced, ListingElsewhere}
DedupLists == UNION {[1..n -> DedupItems] : n \in 0..MaxProducts}

\* What the collaborator does with one request: the request fails, or it
\* answers with a message whose content is not JSON, is JSON that is no
\* array (an object that wraps the list), is missing, or is a JSON array of
\* items, whichever the assistant chose.
Replies ==
    {[kind |-> kind, items |-> <<>>] :
        kind \in {"network_error", "unparsable", "object", "no_content"}}
    \cup {[kind |-> "list", items |-> items] : items \in DedupLists}

\* a value deduplicateProducts resolves with: a list of items, or something
\* that is no list
ListOf(items) == [isList |-> TRUE, items |-> items]
NotAList == [isList |-> FALSE, items |-> <<>>]

\* JSON.parse(response?.choices?.[0]?.message?.content ?? '{}'): throws on
\* text that is not JSON, gives {} for a missing content
ParseAIResponse(reply) ==
    CASE reply.kind = "unparsable" -> [threw |-> TRUE, value |-> NotAList]
      [] reply.kind = "list" -> [threw |-> FALSE, value |-> ListOf(reply.items)]
      [] OTHER -> [threw |-> FALSE, value |-> NotAList]

\* the catch block: products.filter(index === self.findIndex(...))
DedupFallbackValue(products) == ListOf(UniqueProducts(products, Len(products)))

NewDedup(products) ==
    [pc |-> "called", products |-> products,
     reply |-> [kind |-> "none", items |-> <<>>], caught |-> FALSE,
     out |-> NotAList]

\* if (products.length === 0) return products; otherwise the request is sent
DedupCall ==
    /\ dedup.pc = "called"
    /\ dedup' = IF Len(dedup.products) = 0
                THEN [dedup EXCEPT !.pc = "returned", !.out = ListOf(dedup.products)]
                ELSE [dedup EXCEPT !.pc = "awaiting"]
    /\ UNCHANGED <<clientVars, relayVars, scrapeVars, dbVars, validation, requests>>

\* await callOpenAI(...) settles: a rejection goes to the catch block, a
\* response is logged and goes on to parseAIResponse
DedupReply(reply) ==
    /\ dedup.pc = "awaiting"
    /\ dedup' = [dedup EXCEPT !.reply = reply,
                              !.pc = IF reply.kind = "network_error"
                                     THEN "catch" ELSE "parse",
                              !.caught = reply.kind = "network_error"]
    /\ UNCHANGED <<clientVars, relayVars, scrapeVars, dbVars, validation, requests>>

\* return parseAIResponse(response), inside the try block
DedupParse ==
    /\ dedup.pc = "parse"
    /\ LET parsed == ParseAIResponse(dedup.reply)
       IN dedup' = IF parsed.threw
                   THEN [dedup EXCEPT !.pc = "catch", !.caught = TRUE]
                   ELSE [dedup EXCEPT !.pc = "returned", !.out = parsed.value]
    /\ UNCHANGED <<clientVars, relayVars, scrapeVars, dbVars, validation, requests>>

\* the catch block returns the fallback
DedupCatch ==
    /\ dedup.pc = "catch"
    /\ dedup' = [dedup EXCEPT !.pc = "returned",
                              !.out = DedupFallbackValue(dedup.products)]
    /\ UNCHANGED <<clientVars, relayVars, scrapeVars, dbVars, validation, requests>>

\* processResultsWithAI hands {products: deduplicatedProducts, errors} to
\* saveResultsWithMcp, whose createDataDescription and createEnrichedData
\* call result.products.filter: a TypeError on what is no list
DedupHandOver ==
    /\ dedup.pc = "returned"
    /\ dedup' = [dedup EXCEPT !.pc = IF dedup.out.isList THEN "relayed" ELSE "threw"]
    /\ UNCHANGED <<clientVars, relayVars, scrapeVars, dbVars, validation, requests>>

DedupInit ==
    /\ ClientInit
    /\ retryAttempts = 1
    /\ errorListeners = FALSE
    /\ urlValid = TRUE
    /\ frames = NoFrames
    /\ result = NoResult
    /\ fileSaves = 0
    /\ scrape = NoScrape
    /\ extract = NoExtract
    /\ db = NoDb
    /\ saver = NoSaver
    /\ validation = NoValidation
    /\ dedup \in {NewDedup(products) : products \in DedupLists}
    /\ requests = <<>>

DedupReplies == \E reply \in Replies : DedupReply(reply)

DedupNext ==
    \/ DedupCall
    \/ DedupReplies
    \/ DedupParse
    \/ DedupCatch
    \/ DedupHandOver

SpecDedup == DedupInit /\ [][DedupNext]_vars

\* ===================================================================
\* Claims about McpClient
\* ===================================================================
Range(q) == {q[i] : i \in DOMAIN q}
PendingIds == DOMAIN pendingCalls

\* what every handleMessage step leaves alone
FrameStep == UNCHANGED <<socks, conns, timers, sent, isConnected, callIdCounter>>

\* C1: a frame whose id is the id of a pending call settles the call that was
\* issued with that id (resolved with the frame's result, rejected when the
\* frame carries an error) and removes that entry; every other call and every
\* other entry is left as it was.
C1_Correlation ==
    [][\A m \in Messages :
        (m.parses /\ m.idIsString /\ m.id \in PendingIds /\ FrameStep /\ HandleMessage(m)) =>
            \E k \in DOMAIN calls :
                /\ calls[k].id = m.id
                /\ calls[k].state = "pending"
                /\ calls'[k].state = (IF m.hasError THEN "rejected" ELSE "resolved")
                /\ calls'[k].value = (IF m.hasError THEN ErrorValue("rpc_error", "")
                                      ELSE ResultValue(m.result))
                /\ \A j \in DOMAIN calls : j # k => calls'[j] = calls[j]
                /\ DOMAIN pendingCalls' = PendingIds \ {m.id}
                /\ \A i \in DOMAIN pendingCalls' : pendingCalls'[i] = pendingCalls[i]
      ]_vars

\* C1 witness: two calls in flight, the younger one answered first.
C1_Witness ==
    /\ Len(calls) >= 2
    /\ calls[1].state = "pending" /\ calls[1].id \in PendingIds
    /\ calls[2].state = "resolved" /\ calls[2].id # 0

\* C2: a call timer that fires while its id is pending removes the entry and
\* rejects the call with the timeout error naming its method; the resolvers of
\* a call are invoked at most once and a settled call never changes again.
C2_TimeoutOnce ==
    [][/\ (CallTimeout /\ Head(timers).id \in PendingIds) =>
            LET k == pendingCalls[Head(timers).id] IN
                /\ calls'[k].state = "rejected"
                /\ calls'[k].value = ErrorValue("timeout", calls[k].method)
                /\ Head(timers).id \notin DOMAIN pendingCalls'
       /\ \A k \in DOMAIN calls :
            calls[k].state # "pending" => calls'[k] = calls[k]
       /\ \A k \in DOMAIN calls' : calls'[k].n <= 1
      ]_vars

\* C2 witness: one call timed out, another was answered and its timer has
\* fired since, and a frame was handled after that.
C2_Witness ==
    /\ \E k \in DOMAIN calls : calls[k].value.kind = "timeout" /\ calls[k].method = "tools/call"
    /\ \E k \in DOMAIN calls : calls[k].state = "resolved"
    /\ \A i \in DOMAIN timers : timers[i].kind # "call"
    /\ handled = "ignored"

\* C3: a frame whose id is not a key of pendingCalls changes neither
\* pendingCalls nor the connection nor any call, and raises nothing.
C3_UnknownIdIgnored ==
    [][(/\ FrameStep
        /\ \E m \in Messages :
              /\ ~(m.parses /\ m.idIsString /\ m.id \in PendingIds)
              /\ HandleMessage(m))
       => /\ UNCHANGED <<pendingCalls, calls, isConnected, ws, socks, conns, timers>>
          /\ ~crashed'
      ]_vars

\* C3 witness: a frame was ignored while one call had timed out and another
\* was still pending.
C3_Witness ==
    /\ handled = "ignored"
    /\ PendingIds # {}
    /\ \E k \in DOMAIN calls : calls[k].value.kind = "timeout"

\* C4 (as stated): when the connection timer of an attempt fires and the
\* connect() call it belongs to is still pending (none of its sockets has
\* opened), the call is rejected with the connection-timeout error.
C4_TimeoutRejects ==
    [][(ConnectTimeout /\ conns[Head(timers).conn].state = "pending") =>
            /\ conns'[Head(timers).conn].state = "rejected"
            /\ conns'[Head(timers).conn].error = "timeout"
      ]_vars

\* C5 (as stated): a transport error on a connecting socket of a pending
\* connect() call arms the retry timer of the next attempt when the attempt
\* number is below retryAttempts, and otherwise rejects the call with the
\* terminal error and arms nothing; no attempt number exceeds retryAttempts.
C5_RetryOrReject ==
    [][/\ \A s \in DOMAIN socks :
            (SocketError(s) /\ socks[s].state = "connecting"
                            /\ conns[socks[s].conn].state = "pending") =>
                IF socks[s].attempt < retryAttempts
                THEN /\ retries' = Append(retries, [conn |-> socks[s].conn,
                                                    attempt |-> socks[s].attempt + 1])
                     /\ conns' = conns
                ELSE /\ retries' = retries
                     /\ conns'[socks[s].conn].state = "rejected"
                     /\ conns'[socks[s].conn].error = "terminal"
       /\ \A s \in DOMAIN socks' : socks'[s].attempt <= retryAttempts
      ]_vars

\* C6: disconnect() on a connected client clears isConnected and closes the
\* socket in this.ws; the close of a socket emits 'disconnected' with the
\* code of that close; disconnect() on a client that is not connected changes
\* nothing and emits nothing.
C6_Disconnect ==
    [][/\ Disconnect =>
            IF ws # 0 /\ isConnected
            THEN /\ ~isConnected'
                 /\ socks'[ws].state \notin {"connecting", "open"}
            ELSE /\ UNCHANGED <<isConnected, ws, socks, conns, timers, retries,
                                pendingCalls, calls, sent>>
                 /\ emitted' = <<>>
       /\ \A s \in DOMAIN socks : \A code \in CloseCodes :
            SocketClose(s, code) =>
                /\ emitted' = <<[ev |-> "disconnected", sock |-> s, code |-> code]>>
                /\ ~isConnected'
      ]_vars

\* C6 witness: the socket disconnect() closed has reported its close and the
\* notification for it was emitted.
C6_Witness ==
    /\ ws # 0
    /\ socks[ws].state = "closed"
    /\ ~isConnected
    /\ emitted = <<[ev |-> "disconnected", sock |-> ws, code |-> 1000]>>
    /\ \E c \in DOMAIN conns : conns[c].state = "resolved"

\* C7: a listTools() call is one 'tools/list' request under the id of the
\* call, and when the response has a result it returns the tools of the
\* result, the empty list when the result has no tools.
C7_ListTools ==
    \A k \in DOMAIN calls :
        calls[k].api = "listTools" =>
            /\ calls[k].method = "tools/list"
            /\ \A i \in DOMAIN sent :
                 sent[i].id = calls[k].id => sent[i].method = "tools/list"
            /\ Cardinality({i \in DOMAIN sent : sent[i].id = calls[k].id}) <= 1
            /\ (calls[k].state = "resolved" /\ calls[k].value.result.present) =>
                 /\ calls[k].ret.state = "returned"
                 /\ calls[k].ret.tools = (IF calls[k].value.result.hasTools
                                          THEN calls[k].value.result.tools
                                          ELSE NoTools)

\* C7 witness: one listTools() returned the empty list for a result without
\* tools, another returned the remote's tool.
C7_Witness ==
    /\ \E k \in DOMAIN calls :
        /\ calls[k].api = "listTools"
        /\ calls[k].value = ResultValue(ResultNoToolsKey)
        /\ calls[k].ret = [state |-> "returned", tools |-> NoTools, error |-> "none"]
    /\ \E k \in DOMAIN calls :
        /\ calls[k].api = "listTools"
        /\ calls[k].ret.tools = OneTool

\* ===================================================================
\* Claims about saveResultsWithMcp
\* ===================================================================
ToolsCallSent == \E i \in DOMAIN sent : sent[i].method = "tools/call"

\* C8: within one relay attempt 'tools/call' is sent only after listTools
\* returned a non-empty list and validateMcpData accepted the transformed
\* payload; an empty tool list makes the attempt fail with 'No MCP tools
\* available', an invalid payload makes it fail with a validation error, and
\* in both cases no 'tools/call' is sent.
C8_ToolsCallGated ==
    /\ [](/\ ToolsCallSent =>
               /\ calls[1].api = "listTools"
               /\ calls[1].ret.state = "returned"
               /\ Len(calls[1].ret.tools) > 0
               /\ ValidateMcpData(TransformScrapingResultToMcp(result)).isValid
          /\ Top.error \in {"no_tools", "validation"} => ~ToolsCallSent)
    /\ [][(RelayListed /\ calls[1].ret.state = "returned" /\ calls[1].ret.tools = NoTools)
            => /\ Top'.pc = "analyzing"
               /\ Top'.error = "no_tools"
               /\ ~ToolsCallSent'
          ]_vars
    /\ [][((\E i \in DOMAIN Top.tools : RelaySelected(i))
            /\ ~ValidateMcpData(TransformScrapingResultToMcp(result)).isValid)
            => /\ Top'.pc = "analyzing"
               /\ Top'.error = "validation"
               /\ ~ToolsCallSent'
          ]_vars

\* C8 witness: an attempt failed on an empty tool list, and in its retry the
\* list was not empty, the payload was valid and 'tools/call' went out.
C8_Witness ==
    /\ Len(frames) = 2
    /\ frames[1].error = "no_tools"
    /\ Top.pc = "saving"
    /\ ToolsCallSent
    /\ ValidateMcpData(TransformScrapingResultToMcp(result)).isValid

\* C9: a relay that failed has written the result to the fallback file and
\* has thrown the error it caught to its caller: it returns normally only when
\* callTool returned, and when the run has stopped on a connection error the
\* result is in the file.
C9_FallbackAndRethrow ==
    /\ \A i \in DOMAIN frames :
          /\ frames[i].pc = "returned" => frames[i].delivered
          /\ (frames[i].pc = "threw" /\ frames[i].thrown # "write_failed") =>
                /\ frames[i].wrote
                /\ frames[i].thrown = frames[i].error
    /\ crashed => fileSaves > 0

\* ===================================================================
\* Claims about scrapeAllStores
\* ===================================================================
\* C10: the result scrapeAllStores returns has in errors one entry
\* 'Failed to scrape {store} for "{term}": {cause}' for every pair whose fetch
\* failed; a run with a failed pair never returns an empty errors list.
C10_FailuresReported ==
    scrape.pc = "done" =>
        /\ \A i \in DOMAIN scrape.failed :
              \E j \in DOMAIN scrape.result.errors :
                 scrape.result.errors[j] = scrape.failed[i]
        /\ scrape.failed # <<>> => scrape.result.errors # <<>>

\* the items the strategy handed back in the first n finished invocations
RECURSIVE Gathered(_, _)
Gathered(history, n) ==
    IF n = 0 THEN <<>>
    ELSE Gathered(history, n - 1)
         \o (IF history[n].outcome.ok THEN history[n].outcome.items ELSE <<>>)

Identities(items) == {<<items[i].name, items[i].store>> : i \in DOMAIN items}

IsInvoke(e) == e.ev = "invoke"
Invokes == SelectSeq(scrape.log, IsInvoke)

\* C12: in one run the strategy is invoked exactly once for every (store, term)
\* pair, stores in the outer loop and terms in the inner loop, in the order
\* given, and an invocation starts only after the previous one has finished:
\* at most one is in progress.
C12_OncePerPairInOrder ==
    /\ \A k \in DOMAIN Invokes :
          /\ Invokes[k].store = ((k - 1) \div Len(scrape.terms)) + 1
          /\ Invokes[k].term = ((k - 1) % Len(scrape.terms)) + 1
    /\ scrape.pc = "done" => Len(Invokes) = Len(scrape.stores) * Len(scrape.terms)
    /\ scrape.inFlight <= 1
    /\ Len(Invokes) = Len(scrape.history) + scrape.inFlight

\* C12 witness: a run over two stores and two terms has made its four
\* invocations and returned.
C12_Witness ==
    /\ scrape.pc = "done"
    /\ Len(scrape.stores) > 1
    /\ Len(scrape.terms) > 1
    /\ Len(Invokes) = Len(scrape.stores) * Len(scrape.terms)
    /\ scrape.inFlight = 0

SameIdentity(p, q) == p.name = q.name /\ p.store = q.store
FirstAt(items, p) ==
    CHOOSE i \in DOMAIN items :
        /\ SameIdentity(items[i], p)
        /\ \A j \in DOMAIN items : SameIdentity(items[j], p) => i <= j

\* C13: the products returned hold no two items with the same (name, store);
\* for every (name, store) of the accumulator the item kept is the first one
\* in accumulation order, with its own price and url, and the kept items stand
\* in accumulation order.
C13_FirstOccurrenceKept ==
    scrape.pc = "done" =>
        LET acc == scrape.products
            out == scrape.result.products
        IN /\ Identities(out) = Identities(acc)
           /\ \A k \in DOMAIN out : out[k] = acc[FirstAt(acc, out[k])]
           /\ \A k \in DOMAIN out : \A l \in DOMAIN out :
                 k < l => FirstAt(acc, out[k]) < FirstAt(acc, out[l])

\* C13 witness: the accumulator of a finished run held one product of one
\* store twice, at two prices, and another product after it.
C13_Witness ==
    /\ scrape.pc = "done"
    /\ \E i \in DOMAIN scrape.products : \E j \in DOMAIN scrape.products :
          /\ i < j
          /\ SameIdentity(scrape.products[i], scrape.products[j])
          /\ scrape.products[i].price # scrape.products[j].price
    /\ Len(scrape.result.products) > 1
    /\ Len(scrape.result.products) < Len(scrape.products)

\* C14: the exact dedup on (name, store) is idempotent: applied to a list it
\* has already deduplicated it returns that list, same items in the same
\* order.
C14_DedupIdempotent ==
    LET once == UniqueProducts(scrape.products, Len(scrape.products))
    IN UniqueProducts(once, Len(once)) = once

\* C14 witness: an accumulator with duplicates whose deduplicated list has
\* more than one item.
C14_Witness ==
    LET once == UniqueProducts(scrape.products, Len(scrape.products))
    IN /\ Len(once) > 1
       /\ Len(once) < Len(scrape.products)
       /\ UniqueProducts(once, Len(once)) = once

\* C15: every browser scrapeStoreWithBrowser launched for an invocation is
\* closed when the invocation has returned or failed, whichever step failed:
\* outside an invocation no browser is open.
C15_BrowserClosed ==
    scrape.pc # "scraping" => scrape.browsers = 0

\* ===================================================================
\* Claims about the extractors
\* ===================================================================
\* C16: extractSingleProduct returns absent for every element whose extracted
\* name is empty or whose extracted price is not strictly positive (the
\* sentinel -1 included), so every item it returns has a non-empty name and a
\* price above 0.
C16_RejectsNonPositive ==
    extract.pc = "done" =>
        /\ (extract.name = <<>> \/ ~Positive(extract.price)) => ~extract.product.present
        /\ extract.product.present =>
              /\ extract.product.name # <<>>
              /\ Positive(extract.product.price)

\* the number each sample price text stands for, -1 for a selector that is
\* skipped (no element, blank, words, zero, a lone comma)
ExpectedPrice(matches) ==
    CASE matches = <<EuroPrice>> -> Num(123456, 2)
      [] matches = <<PaddedPrice>> -> Num(499, 0)
      [] OTHER -> MinusOne

\* C17: extractProductPrice tries the price selectors in order and returns the
\* parsed value of the first one whose text parses to a number above 0
\* (1234.56 for "€1.234,56"), skipping selectors with no element, empty text,
\* unparsable text or a value not above 0; it returns -1 when there is none,
\* so its result is -1 or above 0.
C17_FirstPositivePrice ==
    extract.pc \in {"url", "product", "done"} =>
        LET expected == [i \in DOMAIN extract.element.prices |->
                            ExpectedPrice(extract.element.prices[i])]
            first == FirstIndex(expected, Positive)
        IN /\ extract.price = (IF first = 0 THEN MinusOne ELSE expected[first])
           /\ extract.price = MinusOne \/ Positive(extract.price)

\* C17 witness: the first selector gave "0,00", the second "€1.234,56", and
\* the price extracted is 1234.56.
C17_Witness ==
    /\ extract.pc = "done"
    /\ extract.element.prices[1] = <<ZeroPrice>>
    /\ extract.element.prices[2] = <<EuroPrice>>
    /\ extract.price = Num(123456, 2)

\* the text each sample match gives: the trimmed text of the first element the
\* selector matches, "" when it matches none or that text is blank
ExpectedName(matches) ==
    CASE matches = <<PlainName>> -> PlainName
      [] matches = <<PaddedName>> -> <<"R", "y", "z", "e", "n", " ", "7">>
      [] OTHER -> NoText

\* C18: extractProductName returns the trimmed text of the first selector, in
\* list order, whose element has non-empty trimmed text; a selector whose
\* element has empty text does not stop the search; the result is the empty
\* string when no selector yields text.
C18_FirstNonEmptyName ==
    extract.pc \in {"price", "url", "product", "done"} =>
        LET expected == [i \in DOMAIN extract.element.names |->
                            ExpectedName(extract.element.names[i])]
            first == FirstIndex(expected, NonEmpty)
        IN extract.name = (IF first = 0 THEN NoText ELSE expected[first])

\* C18 witness: the first selector matched an element with blank text, the
\* second one " Ryzen 7 ", and the name extracted is "Ryzen 7".
C18_Witness ==
    /\ extract.pc = "done"
    /\ extract.element.names[1] = <<BlankText>>
    /\ extract.element.names[2] = <<PaddedName>>
    /\ extract.name = <<"R", "y", "z", "e", "n", " ", "7">>

IsAbsoluteHttp(href) == StartsWith(href, <<"h", "t", "t", "p", ":", "/", "/">>) \/ StartsWith(href, <<"h", "t", "t", "p", "s", ":", "/", "/">>)
HasScheme(href) ==
    \E i \in DOMAIN href :
        href[i] = ":" /\ \A j \in 1..(i - 1) : href[j] \notin {"/", "?", "#"}
IsRelative(href) == href # <<>> /\ ~HasScheme(href)

\* C19: extractProductUrl returns the first href of a descendant anchor,
\* unchanged when it is an absolute http(s) url and baseUrl + href when it is
\* relative; with no descendant anchor href it returns the element's own href,
\* the empty string when it has none.
C19_UrlResolved ==
    extract.pc \in {"product", "done"} =>
        LET anchors == extract.element.anchors
            first == FirstIndex(anchors, NonEmpty)
        IN IF first # 0
           THEN /\ IsAbsoluteHttp(anchors[first]) => extract.url = anchors[first]
                /\ IsRelative(anchors[first]) => extract.url = BaseUrl \o anchors[first]
           ELSE extract.url = extract.element.href

\* ===================================================================
\* Claims about the database
\* ===================================================================

SameItem(row, product, storeId) ==
    /\ row.name = product.name
    /\ row.store_id = storeId
    /\ row.item_type = product.category

\* C20: the item table holds at most one row per (name, store_id, category);
\* getOrCreateItem for an identity already stored returns the existing id,
\* creates no row and overwrites only price and url, so that a later read
\* shows only the latest price; for an identity not stored it inserts exactly
\* one row.
C20_ItemUpsert ==
    /\ [](\A i, j \in DOMAIN db.item :
             SameItem(db.item[i], [name |-> db.item[j].name,
                                   category |-> db.item[j].item_type],
                      db.item[j].store_id) => i = j)
    /\ [][(saver.pc = "transaction" /\ saver'.pc = "transaction") =>
            LET product == saver'.product
                id == saver'.itemId
                stored == {i \in DOMAIN db.item :
                              SameItem(db.item[i], product, saver'.storeId)}
                read == QueryLatestProducts(db', DefaultLimit)
            IN IF stored # {}
               THEN /\ id \in stored
                    /\ DOMAIN db'.item = DOMAIN db.item
                    /\ \A i \in DOMAIN db.item : i # id => db'.item[i] = db.item[i]
                    /\ db'.item[id] = [db.item[id] EXCEPT !.price = product.price,
                                                          !.url = product.url]
                    /\ \A k \in DOMAIN read :
                          (/\ read[k].name = product.name
                           /\ read[k].store = product.store
                           /\ read[k].category = product.category)
                              => read[k].price = product.price
               ELSE /\ id = Len(db.item) + 1
                    /\ Len(db'.item) = Len(db.item) + 1
                    /\ SubSeq(db'.item, 1, Len(db.item)) = db.item
                    /\ SameItem(db'.item[id], product, saver'.storeId)
                    /\ db'.item[id].price = product.price
                    /\ db'.item[id].url = product.url]_vars

\* C20 witness: the listing was saved by one scrape and seen again, repriced,
\* by the next: one row, the same id, the later price and url.
C20_Witness ==
    /\ saver.pc = "returned"
    /\ Len(db.scrape) = 2
    /\ saver.product = ListingRepriced
    /\ saver.itemId = 1
    /\ Len(db.item) = 1
    /\ db.item[1].price = ListingRepriced.price
    /\ db.item[1].url = ListingRepriced.url
    /\ db.scrape_item = <<<<1, 1>>, <<2, 1>>>>

\* the store rows that are committed: those at BEGIN while a transaction runs
CommittedStores == IF saver.pc = "transaction" THEN saver.begun.store ELSE db.store

\* C21, as stated: getOrCreateStore returns the same id for the same name on
\* every call of every saveProducts call.
C21_SameIdEveryCall ==
    \A p, q \in saver.issued : p[1] = q[1] => p[2] = q[2]

\* C21, amended: the store table holds at most one row per name;
\* getOrCreateStore returns the id of the row that holds the name and leaves
\* the table alone when there is one, and inserts one row when there is
\* none; a committed store row is never changed or removed (the rows a failed
\* batch inserted go with its rollback, and their ids are issued again).
C21_StoreLookup ==
    /\ [](\A i, j \in DOMAIN db.store : db.store[i].name = db.store[j].name => i = j)
    /\ [][(saver.pc = "transaction" /\ saver'.pc = "transaction") =>
            LET name == saver'.product.store
                stored == {i \in DOMAIN db.store : db.store[i].name = name}
            IN IF stored # {}
               THEN saver'.storeId \in stored /\ db'.store = db.store
               ELSE /\ saver'.storeId = Len(db.store) + 1
                    /\ db'.store = Append(db.store, [name |-> name])]_vars
    /\ [][/\ Len(db'.store) >= Len(CommittedStores)
          /\ SubSeq(db'.store, 1, Len(CommittedStores)) = CommittedStores]_vars

\* C21 witness: a second scrape met the store of the first and was given the
\* id of its row.
C21_Witness ==
    /\ saver.pc = "returned"
    /\ Len(db.scrape) = 2
    /\ db.store = <<[name |-> "Megekko"]>>
    /\ saver.storeId = 1
    /\ saver.issued = {<<"Megekko", 1>>}
    /\ Len(db.item) = 2

\* C22: linking a (scrapeId, itemId) pair that is already linked leaves
\* scrape_item unchanged and raises nothing, a pair not yet linked adds one
\* row, and scrape_item never holds the same pair twice, also when one batch
\* holds the same item identity more than once.
C22_LinkIdempotent ==
    /\ [](\A k, l \in DOMAIN db.scrape_item :
             db.scrape_item[k] = db.scrape_item[l] => k = l)
    /\ [][(saver.pc = "transaction" /\ saver'.pc = "transaction") =>
            LET pair == <<saver.scrapeId, saver'.itemId>>
            IN IF \E k \in DOMAIN db.scrape_item : db.scrape_item[k] = pair
               THEN db'.scrape_item = db.scrape_item
               ELSE db'.scrape_item = Append(db.scrape_item, pair)]_vars
    /\ [][(saver.pc = "transaction" /\ saver'.pc = "threw") =>
            saver'.product.category \notin ItemTypes]_vars

\* C22 witness: one batch held the listing twice; the second round linked
\* the pair again and the table holds it once.
C22_Witness ==
    /\ saver.pc = "transaction"
    /\ saver.index = 2
    /\ saver.product = ListingRepriced
    /\ Len(db.scrape) = 1
    /\ db.scrape_item = <<<<1, 1>>>>

\* C23: when processing a product of a batch fails, none of the batch's
\* store, item or scrape_item changes is visible afterwards; only the scrape
\* row, created first and outside the transaction, remains.
C23_BatchAtomic ==
    /\ [][(saver.pc # "transaction" /\ saver'.pc = "transaction") =>
            /\ saver'.begun = db'
            /\ db'.store = db.store
            /\ db'.item = db.item
            /\ db'.scrape_item = db.scrape_item
            /\ Len(db'.scrape) = Len(db.scrape) + 1
            /\ saver'.scrapeId = Len(db'.scrape)]_vars
    /\ [][(saver.pc = "transaction" /\ saver'.pc = "transaction") =>
            /\ saver'.begun = saver.begun
            /\ db'.scrape = db.scrape]_vars
    /\ [][(saver.pc = "transaction" /\ saver'.pc = "threw") =>
            /\ db'.store = saver.begun.store
            /\ db'.item = saver.begun.item
            /\ db'.scrape_item = saver.begun.scrape_item
            /\ db'.scrape = db.scrape
            /\ Len(db'.scrape) = saver.scrapeId]_vars

\* C23 witness: the first product of the first batch was stored, the second
\* was refused, and the database holds the scrape row alone.
C23_Witness ==
    /\ saver.pc = "threw"
    /\ saver.index = 1
    /\ Len(db.scrape) = 1
    /\ db.store = <<>>
    /\ db.item = <<>>
    /\ db.scrape_item = <<>>

\* ===================================================================
\* Claims about validateMcpData
\* ===================================================================

ItemComplete(item) ==
    /\ item.name # ""
    /\ Positive(item.price)
    /\ item.url # ""
    /\ item.item_type \in {"GPU", "CPU"}
    /\ "store" \in DOMAIN item
    /\ item.store.name # ""

PayloadComplete(data) ==
    /\ "scrape" \in DOMAIN data
    /\ data.scrape.timestamp # ""
    /\ "items" \in DOMAIN data.scrape
    /\ \A i \in DOMAIN data.scrape.items : ItemComplete(data.scrape.items[i])

\* C24: validateMcpData reports isValid true exactly when the payload has a
\* scrape object with a timestamp, items is a list, and every item has a
\* non-empty name, a price greater than 0, a non-empty url, an item_type of
\* GPU or CPU and a store with a name; in every other case it reports isValid
\* false with at least one error message.
C24_ValidExactlyWhenComplete ==
    validation.pc = "returned" =>
        /\ validation.out.isValid <=> PayloadComplete(validation.data)
        /\ ~validation.out.isValid => Len(validation.out.errors) >= 1

\* ===================================================================
\* Claims about deduplicateProducts
\* ===================================================================

\* the AI collaborator failed: no response, a response that cannot be
\* parsed, or one that is not a list of items
CollaboratorFailed(reply) ==
    reply.kind \in {"network_error", "unparsable", "object", "no_content"}

SameNameAndStore(p, q) == p.name = q.name /\ p.store = q.store

\* list is products without every item that has an earlier item of the same
\* name and store
IsFirstOccurrences(list, products) ==
    LET kept == {i \in DOMAIN products :
                    \A j \in 1..(i - 1) : ~SameNameAndStore(products[j], products[i])}
    IN /\ Len(list) = Cardinality(kept)
       /\ \A k \in DOMAIN list :
             \E i \in kept :
                /\ list[k] = products[i]
                /\ Cardinality({j \in kept : j < i}) = k - 1

\* C25: whenever the AI dedup collaborator fails (network error, unparsable
\* response, or a response that is not a list of items) deduplicateProducts
\* returns the exact (name, store) first-occurrence dedup of its input, and
\* the result goes on to the relay.
C25_FallbackOnAnyFailure ==
    /\ (dedup.pc \in {"returned", "relayed", "threw"} /\ CollaboratorFailed(dedup.reply)) =>
          /\ dedup.out.isList
          /\ IsFirstOccurrences(dedup.out.items, dedup.products)
    /\ dedup.pc # "threw"

\* ===================================================================
\* More claims about McpClient
\* ===================================================================

\* C26: the connection state follows Disconnected -> Connecting -> Connected
\* -> Disconnected only: the client becomes connected only on the 'open' of a
\* socket that a connect attempt created, it becomes disconnected on every
\* close and on every error of the connected transport, and isConnected is
\* never true while the transport has errored or closed.
C26_ConnectionStates ==
    /\ [](isConnected => (ws # 0 /\ socks[ws].state = "open"))
    /\ [][(~isConnected /\ isConnected') =>
            \E s \in DOMAIN socks :
                socks[s].state = "connecting" /\ socks'[s].state = "open"]_vars
    /\ [][(\E k \in DOMAIN emitted' : emitted'[k].ev \in {"error", "disconnected"}
                                       /\ emitted'[k].sock = ws)
            => ~isConnected']_vars

\* the call timer at the head of the queue fires
CallTimerFires == timers # <<>> /\ Head(timers).kind = "call" /\ timers' = Tail(timers)

\* C27: every call that callMethod accepts gets an id strictly greater than
\* every id assigned before; no two calls, pending or finished, share an id,
\* a pendingCalls entry is never overwritten by a later call, and the timer
\* left over from a finished call neither removes nor rejects another call.
C27_IdsUnique ==
    /\ [](\A j, k \in DOMAIN calls :
             (calls[j].id # 0 /\ calls[j].id = calls[k].id) => j = k)
    /\ [][(Len(calls') = Len(calls) + 1 /\ calls'[Len(calls')].id # 0) =>
            LET id == calls'[Len(calls')].id
            IN /\ \A k \in DOMAIN calls : calls[k].id < id
               /\ id > callIdCounter
               /\ callIdCounter' = id
               /\ id \notin PendingIds
               /\ \A i \in PendingIds :
                     i \in DOMAIN pendingCalls' /\ pendingCalls'[i] = pendingCalls[i]]_vars
    /\ [][(CallTimerFires /\ Head(timers).id \notin PendingIds) =>
            /\ pendingCalls' = pendingCalls
            /\ \A k \in DOMAIN calls :
                  /\ calls'[k].state = calls[k].state
                  /\ calls'[k].value = calls[k].value]_vars

\* C27 witness: the first call was answered, a second call is pending, and
\* the timer of the first has fired since; only the second call's timer is
\* armed.
C27_Witness ==
    /\ Len(calls) = 2
    /\ calls[1].id = 1 /\ calls[1].state = "resolved"
    /\ calls[2].id = 2 /\ calls[2].state = "pending"
    /\ PendingIds = {2}
    /\ Len(timers) = 1 /\ timers[1].kind = "call" /\ timers[1].id = 2

\* C28: a call timeout affects only the call that timed out: isConnected and
\* the transport are unchanged, every other pending call stays pending and
\* every other call is as it was; later calls on the same connection are
\* issued and answered.
C28_TimeoutLocal ==
    [][(CallTimerFires /\ Head(timers).id \in PendingIds) =>
          LET id == Head(timers).id
          IN /\ UNCHANGED <<isConnected, ws, socks, sent, callIdCounter>>
             /\ DOMAIN pendingCalls' = PendingIds \ {id}
             /\ \A i \in PendingIds \ {id} : pendingCalls'[i] = pendingCalls[i]
             /\ \A k \in DOMAIN calls : k # pendingCalls[id] => calls'[k] = calls[k]
      ]_vars

\* C28 witness: the first call timed out; the second, issued afterwards on
\* the same socket, was answered.
C28_Witness ==
    /\ Len(calls) = 2
    /\ calls[1].state = "rejected" /\ calls[1].value.kind = "timeout"
    /\ calls[2].id = 2 /\ calls[2].state = "resolved"
    /\ isConnected /\ ws = 1 /\ socks[1].state = "open"
    /\ \E i \in DOMAIN timers : timers[i].id = 2

\* ===================================================================
\* More claims about scrapeAllStores
\* ===================================================================

IsTermDelay(e) == e.ev = "delay_1000"
IsStoreDelay(e) == e.ev = "delay_2000"

\* C29: the inter-term delay elapses after every (store, term) invocation,
\* whether it succeeded or failed, the longer inter-store delay elapses after
\* the last term of every store, and no two consecutive invocations happen
\* without a delay between them.
C29_DelaysBetweenInvocations ==
    /\ \A i \in DOMAIN scrape.log :
          (i < Len(scrape.log) /\ IsInvoke(scrape.log[i])) =>
              /\ IsTermDelay(scrape.log[i + 1])
              /\ scrape.log[i + 1].store = scrape.log[i].store
              /\ scrape.log[i + 1].term = scrape.log[i].term
    /\ \A i \in DOMAIN scrape.log :
          (/\ i < Len(scrape.log)
           /\ IsTermDelay(scrape.log[i])
           /\ scrape.log[i].term = Len(scrape.terms)) =>
              /\ IsStoreDelay(scrape.log[i + 1])
              /\ scrape.log[i + 1].store = scrape.log[i].store
    /\ scrape.pc \in {"loop", "done"} =>
          /\ Len(scrape.log) > 0 => ~IsInvoke(scrape.log[Len(scrape.log)])
          /\ \A k \in DOMAIN scrape.history :
                \E i \in DOMAIN scrape.log :
                    /\ IsTermDelay(scrape.log[i])
                    /\ scrape.log[i].store = scrape.history[k].store
                    /\ scrape.log[i].term = scrape.history[k].term
    /\ scrape.pc = "done" =>
          /\ Len(SelectSeq(scrape.log, IsTermDelay)) = Len(Invokes)
          /\ Len(SelectSeq(scrape.log, IsStoreDelay)) = Len(scrape.stores)
          /\ \A n \in DOMAIN scrape.stores :
                \E i \in DOMAIN scrape.log :
                    IsStoreDelay(scrape.log[i]) /\ scrape.log[i].store = n

\* C29 witness: a run over two stores and two terms in which an invocation
\* failed has returned: four invocations, four inter-term delays, two
\* inter-store delays.
C29_Witness ==
    /\ scrape.pc = "done"
    /\ Len(scrape.stores) = 2 /\ Len(scrape.terms) = 2
    /\ Len(scrape.log) = 10
    /\ ~scrape.history[1].outcome.ok
    /\ IsTermDelay(scrape.log[2])


\* ===================================================================
\* Claims about extractProducts
\* ===================================================================
\* the name, without its whitespace and in lower case, contains one of the
\* keywords in lower case
MatchesKeywordSet(name, keywords) ==
    LET folded == ToLowerCase(SelectSeq(name, NotSpace))
    IN \E k \in DOMAIN keywords :
          \E at \in 0..(Len(folded) - Len(keywords[k])) :
             \A i \in 1..Len(keywords[k]) :
                folded[at + i] = ToLowerCase(keywords[k])[i]

\* C30: every item extractProducts returns has a name that matches the GPU
\* keywords or the CPU keywords; its category is GPU exactly when the name
\* matches a GPU keyword, and CPU only when the name matches no GPU keyword
\* and matches a CPU keyword; an extracted item whose name matches neither
\* set is not among the returned ones.
C30_KeywordFilter ==
    extract.pc = "returned" =>
        /\ \A k \in DOMAIN extract.out :
              LET item == extract.out[k]
                  gpu == MatchesKeywordSet(item.name, GPU_KEYWORDS)
                  cpu == MatchesKeywordSet(item.name, CPU_KEYWORDS)
              IN /\ gpu \/ cpu
                 /\ item.category \in {"GPU", "CPU"}
                 /\ item.category = "GPU" <=> gpu
                 /\ item.category = "CPU" => ~gpu /\ cpu
        /\ \A k \in DOMAIN extract.products :
              LET item == extract.products[k]
              IN ~MatchesKeywordSet(item.name, GPU_KEYWORDS)
                 /\ ~MatchesKeywordSet(item.name, CPU_KEYWORDS)
                 => \A j \in DOMAIN extract.out : extract.out[j] # item

\* C30 witness: a page with a graphics card and a cable: both were extracted,
\* the card is returned as a GPU and the cable is dropped
C30_Witness ==
    /\ extract.pc = "returned"
    /\ Len(extract.products) = 2
    /\ Len(extract.out) = 1
    /\ extract.out[1].name = PlainName
    /\ extract.out[1].category = "GPU"
    /\ \E k \in DOMAIN extract.products : extract.products[k].name = OtherName

\* the text without its whitespace and in lower case
Folded(text) == ToLowerCase(SelectSeq(text, NotSpace))

\* the name contains one of the keywords when differences of case and of
\* whitespace are ignored on both sides
ContainsKeywordFolded(name, keywords) ==
    \E k \in DOMAIN keywords :
       \E at \in 0..(Len(Folded(name)) - Len(Folded(keywords[k]))) :
          \A i \in 1..Len(Folded(keywords[k])) :
             Folded(name)[at + i] = Folded(keywords[k])[i]

\* C31: for every product name extracted from the page, isGPU is true when
\* the name contains a GPU keyword and isCPU is true when it contains a CPU
\* keyword, case and whitespace ignored (a name with "Ryzen 7" is a CPU, a
\* name with "5070 Ti" is a GPU).
C31_MatchIgnoresWhitespace ==
    \A k \in DOMAIN extract.products :
       LET name == extract.products[k].name
       IN /\ ContainsKeywordFolded(name, GPU_KEYWORDS) => IsGPU(name)
          /\ ContainsKeywordFolded(name, CPU_KEYWORDS) => IsCPU(name)

\* the elements matched by the first selector, in list order, that matches at
\* least one element; none when no selector matches
FirstMatched(document) ==
    IF \A i \in DOMAIN document : document[i] = <<>> THEN <<>>
    ELSE document[CHOOSE i \in DOMAIN document :
                     document[i] # <<>> /\ \A j \in 1..(i - 1) : document[j] = <<>>]

\* C32: one container selector per page: the returned items all come from
\* the elements of the first selector that matches, one item per element at
\* most and in the order of the elements, whatever the later selectors match
\* and also when every element of that selector is rejected.
C32_OneContainerSelector ==
    extract.pc = "returned" =>
        LET elements == FirstMatched(extract.document)
        IN /\ Len(extract.products) <= Len(elements)
           /\ \A k \in DOMAIN extract.products :
                 \E e \in DOMAIN elements :
                    extract.products[k] = ExtractSingleProduct(elements[e], "Megekko", BaseUrl)
           /\ \A k \in DOMAIN extract.out :
                 \E e \in DOMAIN elements :
                    extract.out[k] = ExtractSingleProduct(elements[e], "Megekko", BaseUrl)
           /\ Len(extract.products) =
                 Cardinality({e \in DOMAIN elements :
                                 ExtractSingleProduct(elements[e], "Megekko", BaseUrl).present})

\* C32 witness: the first selector matches a cable and an element without a
\* name, a later selector matches a graphics card: nothing is returned
C32_Witness ==
    /\ extract.pc = "returned"
    /\ extract.document[1] = <<ProductElement(OtherName), ProductElement(NoText)>>
    /\ extract.document[2] = <<ProductElement(PlainName)>>
    /\ Len(extract.products) = 1
    /\ extract.out = <<>>

\* ===================================================================
\* Claims about several runs on one database
\* ===================================================================
\* the writes to store, item and scrape_item, in the order they were made
IsBatchWrite(w) == w.table \in {"store", "item", "scrape_item"}
BatchWrites == SelectSeq(saver.writes, IsBatchWrite)

\* C33: the writes of two runs do not interleave: between two writes of one
\* saveProducts batch to store, item or scrape_item there is no such write of
\* another batch, every scrape_item row a batch writes carries the scrape id
\* of that batch, and every scrape_item row in the file with the scrape id
\* of a batch was written by that batch, which committed.
C33_BatchesSerialized ==
    /\ \A i \in DOMAIN BatchWrites : \A k \in DOMAIN BatchWrites :
          i < k /\ BatchWrites[i].run = BatchWrites[k].run
          => \A j \in i..k : BatchWrites[j].run = BatchWrites[i].run
    /\ \A i \in DOMAIN BatchWrites :
          BatchWrites[i].table = "scrape_item"
          => BatchWrites[i].row[1] = saver.runs[BatchWrites[i].run].scrapeId
    /\ \A k \in DOMAIN db.scrape_item :
          (\E r \in Runs : saver.runs[r].scrapeId = db.scrape_item[k][1])
          => \E i \in DOMAIN BatchWrites :
                /\ BatchWrites[i].table = "scrape_item"
                /\ BatchWrites[i].row = db.scrape_item[k]
                /\ saver.runs[BatchWrites[i].run].pc = "returned"
    /\ \A r \in Runs : \A o \in Runs :
          r # o /\ saver.runs[r].scrapeId # 0 => saver.runs[r].scrapeId # saver.runs[o].scrapeId

\* C33 witness: two processes, both batches committed, and the file holds a
\* scrape_item row of each of the two scrape ids
C33_Witness ==
    /\ ~saver.sameProcess
    /\ \A r \in Runs : saver.runs[r].pc = "returned"
    /\ \E k \in DOMAIN db.scrape_item : db.scrape_item[k][1] = saver.runs[1].scrapeId
    /\ \E k \in DOMAIN db.scrape_item : db.scrape_item[k][1] = saver.runs[2].scrapeId
    /\ \E i \in DOMAIN BatchWrites : BatchWrites[i].run = 1
    /\ \E i \in DOMAIN BatchWrites : BatchWrites[i].run = 2

\* ===================================================================
\* More claims about saveResultsWithMcp
\* ===================================================================
\* the invocation did not get a connection
ServiceUnreachable(frame) == frame.error \in {"thrown", "terminal", "timeout"}

\* C34: the relay retries of one run are bounded: a run whose every
\* invocation found the service unreachable, and was answered with a retry
\* by the error analysis (the answer it gives when its collaborator fails),
\* reaches the file fallback before MaxDepth invocations are on the stack.
C34_RetriesBounded ==
    ~ /\ Len(frames) = MaxDepth
      /\ \A k \in 1..(MaxDepth - 1) :
            /\ frames[k].pc = "awaiting"
            /\ ServiceUnreachable(frames[k])

\* ===================================================================
\* Claims about calls on a client that is connected more than once
\* ===================================================================
\* call number k passed the guard of callMethod and took an id
Accepted(k) == k \in DOMAIN calls /\ calls[k].id # 0
SettledAndRemoved(k) ==
    /\ k \in DOMAIN calls
    /\ calls[k].state # "pending"
    /\ calls[k].id \notin DOMAIN pendingCalls

\* C35: every call that callMethod accepted is eventually settled with its
\* pendingCalls entry removed, and pendingCalls is eventually empty for good.
C35_CallsSettle ==
    /\ \A k \in 1..MaxCalls : [](Accepted(k) => <>SettledAndRemoved(k))
    /\ <>[](DOMAIN pendingCalls = {})

\* ===================================================================
\* Claims about connect() and its attempts
\* ===================================================================
\* once connect() call c has rejected, no further socket is opened for it and
\* none of its sockets receives 'open'
RejectedStaysDown ==
    \A c \in DOMAIN conns :
       conns[c].state = "rejected" =>
          /\ \A s \in DOMAIN socks' : socks'[s].conn = c => s \in DOMAIN socks
          /\ \A s \in DOMAIN socks :
                socks[s].conn = c /\ socks'[s].state = "open" => socks[s].state = "open"

\* the connection timer of an attempt changes no socket but that attempt's
TimerClosesOwnSocket ==
    ConnectTimeout =>
       \A s \in DOMAIN socks : socks'[s] # socks[s] => s = Head(timers).sock

\* the retry of a connect() call does not replace, in this.ws, the socket of
\* a later connect() call
RetryKeepsLaterSocket ==
    (RetryTimer /\ ws' # ws /\ ws # 0) => socks[ws].conn <= Head(retries).conn

\* C36: a connect() call that rejected opens no further socket and does not
\* make the client connected; a timer or retry left over from one attempt
\* does not close or replace the socket of a later attempt.
C36_RejectedConnectIsOver ==
    /\ [][RejectedStaysDown]_vars
    /\ [][TimerClosesOwnSocket]_vars
    /\ [][RetryKeepsLaterSocket]_vars

\* C37: every connect() call eventually settles; a settled call keeps its
\* outcome whatever arrives later; connect() on a connected client resolves
\* at once and opens no socket.
ConnectSettlesOnce ==
    /\ \A c \in DOMAIN conns :
          conns[c].state # "pending" => conns'[c] = conns[c]
    /\ (Connect /\ isConnected) =>
          /\ socks' = socks
          /\ conns'[Len(conns')].state = "resolved"

ConnectSettled(c) == c \in DOMAIN conns /\ conns[c].state # "pending"

C37_ConnectSettles ==
    /\ \A c \in 1..MaxConnects :
          [](c \in DOMAIN conns => <>ConnectSettled(c))
    /\ [][ConnectSettlesOnce]_vars

\* ===================================================================
\* Claims about callMethod on a client that is not connected
\* ===================================================================
\* C38: listTools() or callTool() on a client that is not connected fails
\* with 'Not connected to MCP server' and changes nothing else: no id is
\* consumed, pendingCalls, the timers and what was sent stay as they were,
\* and the sockets are not touched.
C38_NotConnectedNoEffect ==
    [][((ListTools \/ CallTool) /\ (~isConnected \/ ws = 0)) =>
          /\ Len(calls') = Len(calls) + 1
          /\ calls'[Len(calls')].state = "rejected"
          /\ calls'[Len(calls')].value.kind = "not_connected"
          /\ calls'[Len(calls')].id = 0
          /\ \A k \in DOMAIN calls : calls'[k] = calls[k]
          /\ UNCHANGED <<callIdCounter, pendingCalls, timers, sent, socks, ws,
                         isConnected, conns>>
      ]_vars

\* C38 witness: after a call that was accepted, the client was disconnected
\* (its socket is still in this.ws) and a call was refused without an id
C38_Witness ==
    /\ ~isConnected
    /\ ws # 0
    /\ callIdCounter = 1
    /\ Len(calls) = 2
    /\ calls[1].id = 1
    /\ calls[2].id = 0
    /\ calls[2].value.kind = "not_connected"

\* ===================================================================
\* Claims about the extracted items and the relay validation
\* ===================================================================
\* the characters of a text as one string
RECURSIVE AsString(_)
AsString(text) == IF text = <<>> THEN "" ELSE Head(text) \o AsString(Tail(text))

\* the items extractProducts returned, as products of a ScrapingResult
ReturnedProducts ==
    [k \in DOMAIN extract.out |->
        [name |-> AsString(extract.out[k].name),
         price |-> extract.out[k].price,
         url |-> AsString(extract.out[k].url),
         store |-> extract.out[k].store,
         category |-> extract.out[k].category]]

\* C39: the items the extractor accepted for a page pass the relay
\* validation after transformScrapingResultToMcp: each has a name, a price
\* above 0, a url and a category of GPU or CPU.
C39_ExtractedItemsValid ==
    extract.pc = "returned" =>
        PayloadAccepted([products |-> ReturnedProducts, errors |-> <<>>])

\* ===================================================================
\* server: app.post('/run') and main
\* ===================================================================
\* POST /run requests the server receives in one life of the process
MaxRequests == 3

\* the handler of a request: where its main() call stands ("scraping" in
\* scrapeAllStores, "deduplicating" in deduplicateProducts, "relaying" in
\* saveResultsWithMcp, "responded" once res.json was called) and the status sent
NewRequest == [pc |-> "scraping", status |-> 0]

\* POST /run arrives: the handler logs and calls main(), which runs up to the
\* first await of scrapeAllStores
PostRun ==
    /\ Len(requests) < MaxRequests
    /\ requests' = Append(requests, NewRequest)
    /\ UNCHANGED <<clientVars, relayVars, scrapeVars, dbVars, validation, dedup>>

\* scrapeAllStores resolves: formatResults(result), then processResultsWithAI
\* awaits deduplicateProducts
MainScraped(r) ==
    /\ r \in DOMAIN requests
    /\ requests[r].pc = "scraping"
    /\ requests' = [requests EXCEPT ![r].pc = "deduplicating"]
    /\ UNCHANGED <<clientVars, relayVars, scrapeVars, dbVars, validation, dedup>>

\* deduplicateProducts resolves (it catches its own failures): saveResultsWithMcp
MainDeduplicated(r) ==
    /\ r \in DOMAIN requests
    /\ requests[r].pc = "deduplicating"
    /\ requests' = [requests EXCEPT ![r].pc = "relaying"]
    /\ UNCHANGED <<clientVars, relayVars, scrapeVars, dbVars, validation, dedup>>

\* saveResultsWithMcp resolves, storageAgent.formatResults prints, main resolves
\* and the handler answers 200
MainCompleted(r) ==
    /\ r \in DOMAIN requests
    /\ requests[r].pc = "relaying"
    /\ requests' = [requests EXCEPT ![r] = [pc |-> "responded", status |-> 200]]
    /\ UNCHANGED <<clientVars, relayVars, scrapeVars, dbVars, validation, dedup>>

\* saveResultsWithMcp rethrows after its file fallback: main rejects and the
\* handler answers 500
MainFailed(r) ==
    /\ r \in DOMAIN requests
    /\ requests[r].pc = "relaying"
    /\ requests' = [requests EXCEPT ![r] = [pc |-> "responded", status |-> 500]]
    /\ UNCHANGED <<clientVars, relayVars, scrapeVars, dbVars, validation, dedup>>

ServerInit ==
    /\ ClientInit
    /\ retryAttempts = 1
    /\ errorListeners = FALSE
    /\ urlValid = TRUE
    /\ frames = NoFrames
    /\ result = NoResult
    /\ fileSaves = 0
    /\ scrape = NoScrape
    /\ extract = NoExtract
    /\ db = NoDb
    /\ saver = NoSaver
    /\ validation = NoValidation
    /\ dedup = NoDedup
    /\ requests = <<>>

ServerNext ==
    \/ PostRun
    \/ \E r \in 1..MaxRequests : MainScraped(r)
    \/ \E r \in 1..MaxRequests : MainDeduplicated(r)
    \/ \E r \in 1..MaxRequests : MainCompleted(r)
    \/ \E r \in 1..MaxRequests : MainFailed(r)

SpecServer == ServerInit /\ [][ServerNext]_vars

\* ===================================================================
\* Claims about the server
\* ===================================================================
\* the requests whose main() call has started and not settled
RunsInProgress == {r \in DOMAIN requests : requests[r].pc # "responded"}

\* C40: at most one orchestration run is in progress in the server process:
\* a POST /run received while an earlier run has not finished does not start
\* a second run beside it.
C40_OneRunAtATime == Cardinality(RunsInProgress) <= 1

====
